---- MODULE Spec2Model ----
(***************************************************************************)
(* Model of the gateway's authentication token lifecycle: the expiry gate  *)
(* and credential propagator (PropagateAuthToGRPC, tokenExpired) and the   *)
(* token issuance responder (LoginHandler, RefreshHandler and the cookie   *)
(* setters).  Strings are sequences of one-character strings; byte slices  *)
(* are sequences of integers 0..255.                                       *)
(***************************************************************************)
EXTENDS Integers, Sequences, FiniteSets, TLC

\* ------------------------------------------------------------------------
\* Bounds of the model.
\* ------------------------------------------------------------------------

\* The wall clock (time.Now().Unix()) runs over 0..MaxTime.
MaxTime == 3

\* ------------------------------------------------------------------------
\* Characters and bytes.
\* ------------------------------------------------------------------------

\* The printable ASCII characters, code 32 first: Ascii[k] has code 31 + k
\* (the grave accent, code 96, is written "grave").
Ascii ==
  <<
    " ", "!", "\"", "#", "$", "%", "&", "'", "(", ")", "*", "+", ",", "-", ".", "/",
    "0", "1", "2", "3", "4", "5", "6", "7", "8", "9", ":", ";", "<", "=", ">", "?",
    "@", "A", "B", "C", "D", "E", "F", "G", "H", "I", "J", "K", "L", "M", "N", "O",
    "P", "Q", "R", "S", "T", "U", "V", "W", "X", "Y", "Z", "[", "\\", "]", "^", "_",
    "grave", "a", "b", "c", "d", "e", "f", "g", "h", "i", "j", "k", "l", "m", "n", "o",
    "p", "q", "r", "s", "t", "u", "v", "w", "x", "y", "z", "{", "|", "}", "~"
  >>

\* First position of x in the sequence s at or after k, 0 when there is none.
RECURSIVE IndexFrom(_, _, _)
IndexFrom(x, s, k) ==
  IF k > Len(s) THEN 0 ELSE IF s[k] = x THEN k ELSE IndexFrom(x, s, k + 1)

\* Position of x in the sequence s, 0 when x does not occur.
IndexOf(x, s) == IndexFrom(x, s, 1)

\* Position of every element of a sequence without repetitions.
PositionIn(s) == [x \in {s[k] : k \in 1..Len(s)} |-> IndexOf(x, s)]

AsciiPosition == PositionIn(Ascii)

\* Byte value of a printable ASCII character.
Code(c) == 31 + AsciiPosition[c]

\* []byte(s): the bytes of a string.
Bytes(s) == [k \in 1..Len(s) |-> Code(s[k])]

\* The 64 digits of base64.RawURLEncoding (and of the encoder of the tests).
encodeURL ==
  <<
    "A", "B", "C", "D", "E", "F", "G", "H", "I", "J", "K", "L", "M", "N", "O", "P",
    "Q", "R", "S", "T", "U", "V", "W", "X", "Y", "Z", "a", "b", "c", "d", "e", "f",
    "g", "h", "i", "j", "k", "l", "m", "n", "o", "p", "q", "r", "s", "t", "u", "v",
    "w", "x", "y", "z", "0", "1", "2", "3", "4", "5", "6", "7", "8", "9", "-", "_"
  >>

\* The 64 digits of base64.StdEncoding.
encodeStd ==
  <<
    "A", "B", "C", "D", "E", "F", "G", "H", "I", "J", "K", "L", "M", "N", "O", "P",
    "Q", "R", "S", "T", "U", "V", "W", "X", "Y", "Z", "a", "b", "c", "d", "e", "f",
    "g", "h", "i", "j", "k", "l", "m", "n", "o", "p", "q", "r", "s", "t", "u", "v",
    "w", "x", "y", "z", "0", "1", "2", "3", "4", "5", "6", "7", "8", "9", "+", "/"
  >>

\* ------------------------------------------------------------------------
\* Base64.
\* ------------------------------------------------------------------------

\* base64URLEncode of the tests: URL-safe digits, no padding.
RECURSIVE base64URLEncode(_)
base64URLEncode(data) ==
  IF Len(data) = 0 THEN << >>
  ELSE
    LET b1 == data[1]
        b2 == IF Len(data) >= 2 THEN data[2] ELSE 0
        b3 == IF Len(data) >= 3 THEN data[3] ELSE 0
        d1 == << encodeURL[(b1 \div 4) + 1] >>
        d2 == << encodeURL[((b1 % 4) * 16 + (b2 \div 16)) + 1] >>
        d3 == IF Len(data) >= 2
              THEN << encodeURL[((b2 % 16) * 4 + (b3 \div 64)) + 1] >>
              ELSE << >>
        d4 == IF Len(data) >= 3 THEN << encodeURL[(b3 % 64) + 1] >> ELSE << >>
        rest == IF Len(data) > 3 THEN SubSeq(data, 4, Len(data)) ELSE << >>
    IN d1 \o d2 \o d3 \o d4 \o base64URLEncode(rest)

\* The bytes of a run of base64 digits given as their 6-bit values: whole
\* quanta of four digits give three bytes, a final two digits give one byte
\* and a final three give two (left-over bits are dropped, the decoders are
\* not strict).
RECURSIVE DecodeSextets(_)
DecodeSextets(v) ==
  IF Len(v) < 2 THEN << >>
  ELSE
    LET o1 == << v[1] * 4 + (v[2] \div 16) >>
        o2 == IF Len(v) >= 3 THEN << (v[2] % 16) * 16 + (v[3] \div 4) >> ELSE << >>
        o3 == IF Len(v) >= 4 THEN << (v[3] % 4) * 64 + v[4] >> ELSE << >>
        rest == IF Len(v) > 4 THEN SubSeq(v, 5, Len(v)) ELSE << >>
    IN o1 \o o2 \o o3 \o DecodeSextets(rest)

\* decodeMap of an encoding: the 6-bit value of each of its digits.
decodeMapURL == [c \in DOMAIN PositionIn(encodeURL) |-> PositionIn(encodeURL)[c] - 1]

decodeMapStd == [c \in DOMAIN PositionIn(encodeStd) |-> PositionIn(encodeStd)[c] - 1]

\* 6-bit values of a string of digits, by the decode map of its alphabet.
Sextets(s, decodeMap) == [k \in 1..Len(s) |-> decodeMap[s[k]]]

\* base64.RawURLEncoding.DecodeString: every character must be a URL-safe
\* digit ("=" is not) and a single left-over digit is corrupt input.
RawURLDecodeString(s) ==
  IF (\A k \in 1..Len(s) : s[k] \in DOMAIN decodeMapURL) /\ Len(s) % 4 # 1
  THEN [err |-> FALSE, raw |-> DecodeSextets(Sextets(s, decodeMapURL))]
  ELSE [err |-> TRUE, raw |-> << >>]

\* Number of "=" that end s.
RECURSIVE TrailingPad(_)
TrailingPad(s) ==
  IF Len(s) > 0 /\ s[Len(s)] = "="
  THEN 1 + TrailingPad(SubSeq(s, 1, Len(s) - 1))
  ELSE 0

\* base64.StdEncoding.DecodeString: padded input only, so the length is a
\* multiple of four, "=" occurs only as the last one or two characters, and
\* everything else is a standard digit.
StdDecodeString(s) ==
  LET pad == TrailingPad(s)
      body == SubSeq(s, 1, Len(s) - pad)
  IN IF /\ Len(s) % 4 = 0
        /\ pad <= 2
        /\ \A k \in 1..Len(body) : body[k] \in DOMAIN decodeMapStd
     THEN [err |-> FALSE, raw |-> DecodeSextets(Sextets(body, decodeMapStd))]
     ELSE [err |-> TRUE, raw |-> << >>]

\* ------------------------------------------------------------------------
\* Strings.
\* ------------------------------------------------------------------------

\* strings.Split(token, "."): the segments between the dots.
RECURSIVE Split(_)
Split(s) ==
  LET d == IndexOf(".", s)
  IN IF d = 0 THEN << s >>
     ELSE << SubSeq(s, 1, d - 1) >> \o Split(SubSeq(s, d + 1, Len(s)))

\* strings.TrimSpace on printable ASCII: leading and trailing spaces go.
RECURSIVE TrimSpace(_)
TrimSpace(s) ==
  IF Len(s) > 0 /\ s[1] = " " THEN TrimSpace(Tail(s))
  ELSE IF Len(s) > 0 /\ s[Len(s)] = " " THEN TrimSpace(SubSeq(s, 1, Len(s) - 1))
  ELSE s

\* Lower-case form of an ASCII character (simple case folding).
ToLower(c) ==
  LET k == Code(c) IN IF k >= 65 /\ k <= 90 THEN Ascii[k + 32 - 31] ELSE c

\* strings.EqualFold on ASCII strings.
EqualFold(s, t) ==
  /\ Len(s) = Len(t)
  /\ \A k \in 1..Len(s) : ToLower(s[k]) = ToLower(t[k])

\* ------------------------------------------------------------------------
\* JSON (encoding/json.Unmarshal into map[string]interface{}).
\* A parsed value is a record with field t: "num" (neg, mant, e10: the value
\* is mant * 10^e10, negated when neg), "str" (s: its bytes), "bool", "null",
\* "arr", or "obj" (m: its members in source order, each [k, v]).  Field bad
\* tells that the value holds a number no float64 can hold.
\* ------------------------------------------------------------------------

IsDigit(x) == x >= 48 /\ x <= 57

IsHex(x) == IsDigit(x) \/ (x >= 65 /\ x <= 70) \/ (x >= 97 /\ x <= 102)

HexVal(x) == IF IsDigit(x) THEN x - 48 ELSE IF x >= 97 THEN x - 87 ELSE x - 55

\* JSON insignificant whitespace: space, tab, line feed, carriage return.
RECURSIVE SkipWS(_, _)
SkipWS(b, i) ==
  IF i <= Len(b) /\ b[i] \in {32, 9, 10, 13} THEN SkipWS(b, i + 1) ELSE i

\* First position at or after i that holds no digit.
RECURSIVE ScanDigits(_, _)
ScanDigits(b, i) ==
  IF i <= Len(b) /\ IsDigit(b[i]) THEN ScanDigits(b, i + 1) ELSE i

\* The number written by the digits b[i..j-1], after acc.
RECURSIVE DigitsValue(_, _, _, _)
DigitsValue(b, i, j, acc) ==
  IF i >= j THEN acc ELSE DigitsValue(b, i + 1, j, acc * 10 + (b[i] - 48))

\* Number of decimal digits of n > 0.
RECURSIVE NumDigits(_)
NumDigits(n) == IF n < 10 THEN 1 ELSE 1 + NumDigits(n \div 10)

RECURSIVE Pow10(_)
Pow10(k) == IF k <= 0 THEN 1 ELSE 10 * Pow10(k - 1)

\* The first nine significant digits of a mantissa, one of more than nine
\* digits cut down to its first nine.
Lead9(mant) ==
  IF NumDigits(mant) > 9 THEN mant \div Pow10(NumDigits(mant) - 9)
  ELSE mant * Pow10(9 - NumDigits(mant))

\* Whether strconv.ParseFloat(s, 64) reports a range error: the magnitude
\* rounds above the largest float64, 1.7976931348623157e308.  A mantissa of
\* ten digits is compared on its tenth digit as well.
FloatOutOfRange(mant, e10) ==
  /\ mant # 0
  /\ LET order == NumDigits(mant) + e10
     IN \/ order > 309
        \/ /\ order = 309
           /\ \/ Lead9(mant) > 179769313
              \/ NumDigits(mant) > 9 /\ mant > 1797693134

Fail == [ok |-> FALSE, pos |-> 0, val |-> [t |-> "null", bad |-> FALSE]]

\* A JSON number: -? (0 | [1-9][0-9]*) (. [0-9]+)? ([eE] [+-]? [0-9]+)?
\* The number ends at end; its exponent digits are b[i4..end-1] when it has
\* an exponent part (hasExp), negative when expNeg.
NumberValue(b, neg, mant, nFrac, hasExp, expNeg, i4, end) ==
  IF hasExp /\ end = i4 THEN Fail
  ELSE [ok |-> TRUE, pos |-> end,
        val |-> [t |-> "num", neg |-> neg, mant |-> mant,
                 e10 |-> (IF expNeg THEN 0 - DigitsValue(b, i4, end, 0)
                          ELSE DigitsValue(b, i4, end, 0)) - nFrac,
                 bad |-> FloatOutOfRange(mant,
                           (IF expNeg THEN 0 - DigitsValue(b, i4, end, 0)
                            ELSE DigitsValue(b, i4, end, 0)) - nFrac)]]

\* The exponent part of a number whose integer and fraction digits end
\* before i3.
NumberExponent(b, neg, mant, nFrac, i3) ==
  IF i3 <= Len(b) /\ b[i3] \in {101, 69}
  THEN IF i3 + 1 <= Len(b) /\ b[i3 + 1] \in {43, 45}
       THEN NumberValue(b, neg, mant, nFrac, TRUE, b[i3 + 1] = 45,
                        i3 + 2, ScanDigits(b, i3 + 2))
       ELSE NumberValue(b, neg, mant, nFrac, TRUE, FALSE, i3 + 1, ScanDigits(b, i3 + 1))
  ELSE NumberValue(b, neg, mant, nFrac, FALSE, FALSE, i3, i3)

\* The fraction part of a number whose integer digits are b[i1..i2-1]; a
\* fraction b[i2+1..i3-1] needs a digit.
NumberFraction(b, neg, i1, i2, i3) ==
  IF i2 <= Len(b) /\ b[i2] = 46
  THEN IF i3 = i2 + 1 THEN Fail
       ELSE NumberExponent(b, neg, DigitsValue(b, i2 + 1, i3, DigitsValue(b, i1, i2, 0)),
                           i3 - (i2 + 1), i3)
  ELSE NumberExponent(b, neg, DigitsValue(b, i1, i2, 0), 0, i2)

\* The integer part b[i1..i2-1]: a digit is needed, and no digit may follow
\* a leading 0.
NumberInteger(b, neg, i1, i2) ==
  IF i2 = i1 \/ (b[i1] = 48 /\ i2 > i1 + 1) THEN Fail
  ELSE NumberFraction(b, neg, i1, i2,
                      IF i2 <= Len(b) /\ b[i2] = 46 THEN ScanDigits(b, i2 + 1) ELSE i2)

\* A JSON number at i (a "-" or a digit).
ParseNumber(b, i) ==
  IF b[i] = 45 THEN NumberInteger(b, TRUE, i + 1, ScanDigits(b, i + 1))
  ELSE NumberInteger(b, FALSE, i, ScanDigits(b, i))

\* The byte a one-character escape stands for, 0 when it is no escape.
EscapeByte(x) ==
  CASE x = 34 -> 34 [] x = 92 -> 92 [] x = 47 -> 47 [] x = 98 -> 8
    [] x = 102 -> 12 [] x = 110 -> 10 [] x = 114 -> 13 [] x = 116 -> 9
    [] OTHER -> 0

\* The rest of a string literal from i (after its opening quote): control
\* characters are errors, \uXXXX gives its code point.
RECURSIVE ParseStringTail(_, _, _)
ParseStringTail(b, i, acc) ==
  IF i > Len(b) THEN Fail
  ELSE IF b[i] = 34 THEN [ok |-> TRUE, pos |-> i + 1, val |-> [t |-> "str", bad |-> FALSE, s |-> acc]]
  ELSE IF b[i] < 32 THEN Fail
  ELSE IF b[i] = 92 THEN
    IF i + 1 > Len(b) THEN Fail
    ELSE IF b[i + 1] = 117 THEN
      IF i + 5 <= Len(b) /\ \A k \in (i + 2)..(i + 5) : IsHex(b[k])
      THEN ParseStringTail(b, i + 6,
             Append(acc, HexVal(b[i + 2]) * 4096 + HexVal(b[i + 3]) * 256
                         + HexVal(b[i + 4]) * 16 + HexVal(b[i + 5])))
      ELSE Fail
    ELSE IF EscapeByte(b[i + 1]) # 0
      THEN ParseStringTail(b, i + 2, Append(acc, EscapeByte(b[i + 1])))
      ELSE Fail
  ELSE ParseStringTail(b, i + 1, Append(acc, b[i]))

\* Whether b[i..] starts with the bytes of w.
StartsWith(b, i, w) ==
  /\ i + Len(w) - 1 <= Len(b)
  /\ \A k \in 1..Len(w) : b[i + k - 1] = w[k]

RECURSIVE ParseValue(_, _)
RECURSIVE ParseMembers(_, _, _)
RECURSIVE ParseElements(_, _, _)

\* What follows a member or an element that was parsed as v, e being the
\* position of the first character after it that is no whitespace.
AfterMember(b, v, e, more) ==
  IF e > Len(b) THEN Fail
  ELSE IF b[e] = 125
    THEN [ok |-> TRUE, pos |-> e + 1,
          val |-> [t |-> "obj", m |-> more,
                   bad |-> \E k \in 1..Len(more) : more[k].v.bad]]
  ELSE IF b[e] = 44 THEN ParseMembers(b, SkipWS(b, e + 1), more)
  ELSE Fail

\* The value of a member whose key was parsed as key.
MemberValue(b, key, v, acc) ==
  IF ~v.ok THEN Fail
  ELSE AfterMember(b, v, SkipWS(b, v.pos), Append(acc, [k |-> key.val.s, v |-> v.val]))

\* The colon of a member whose key was parsed as key, c being the position
\* of the first character after the key that is no whitespace.
MemberColon(b, key, c, acc) ==
  IF c > Len(b) \/ b[c] # 58 THEN Fail
  ELSE MemberValue(b, key, ParseValue(b, SkipWS(b, c + 1)), acc)

MemberKey(b, key, acc) ==
  IF ~key.ok THEN Fail ELSE MemberColon(b, key, SkipWS(b, key.pos), acc)

\* The members of an object from i (at a key), after those in acc.
ParseMembers(b, i, acc) ==
  IF i > Len(b) \/ b[i] # 34 THEN Fail
  ELSE MemberKey(b, ParseStringTail(b, i + 1, << >>), acc)

AfterElement(b, e, bad) ==
  IF e > Len(b) THEN Fail
  ELSE IF b[e] = 93 THEN [ok |-> TRUE, pos |-> e + 1, val |-> [t |-> "arr", bad |-> bad]]
  ELSE IF b[e] = 44 THEN ParseElements(b, SkipWS(b, e + 1), bad)
  ELSE Fail

ElementValue(b, v, bad) ==
  IF ~v.ok THEN Fail ELSE AfterElement(b, SkipWS(b, v.pos), bad \/ v.val.bad)

\* The elements of an array from i (at a value); bad tells of the elements
\* before.
ParseElements(b, i, bad) == ElementValue(b, ParseValue(b, i), bad)

\* An object whose "{" is before j, the first position that holds no
\* whitespace.
ParseObject(b, j) ==
  IF j <= Len(b) /\ b[j] = 125
  THEN [ok |-> TRUE, pos |-> j + 1, val |-> [t |-> "obj", bad |-> FALSE, m |-> << >>]]
  ELSE ParseMembers(b, j, << >>)

\* An array whose "[" is before j.
ParseArray(b, j) ==
  IF j <= Len(b) /\ b[j] = 93
  THEN [ok |-> TRUE, pos |-> j + 1, val |-> [t |-> "arr", bad |-> FALSE]]
  ELSE ParseElements(b, j, FALSE)

\* One JSON value at i.
ParseValue(b, i) ==
  IF i > Len(b) THEN Fail
  ELSE IF b[i] = 123 THEN ParseObject(b, SkipWS(b, i + 1))
  ELSE IF b[i] = 91 THEN ParseArray(b, SkipWS(b, i + 1))
  ELSE IF b[i] = 34 THEN ParseStringTail(b, i + 1, << >>)
  ELSE IF b[i] = 45 \/ IsDigit(b[i]) THEN ParseNumber(b, i)
  ELSE IF StartsWith(b, i, <<116, 114, 117, 101>>)
    THEN [ok |-> TRUE, pos |-> i + 4, val |-> [t |-> "bool", bad |-> FALSE]]
  ELSE IF StartsWith(b, i, <<102, 97, 108, 115, 101>>)
    THEN [ok |-> TRUE, pos |-> i + 5, val |-> [t |-> "bool", bad |-> FALSE]]
  ELSE IF StartsWith(b, i, <<110, 117, 108, 108>>)
    THEN [ok |-> TRUE, pos |-> i + 4, val |-> [t |-> "null", bad |-> FALSE]]
  ELSE Fail

\* json.Unmarshal(raw, &claims) with claims a nil map[string]interface{}:
\* the input is one JSON value between optional whitespace; an object fills
\* the map (a later duplicate key replaces an earlier one), null leaves it
\* nil without error, any other value is a type error, and so is a number
\* no float64 holds.
UnmarshalValue(raw, v) ==
  IF ~v.ok \/ SkipWS(raw, v.pos) # Len(raw) + 1 THEN [err |-> TRUE, claims |-> << >>]
  ELSE IF v.val.t = "null" THEN [err |-> FALSE, claims |-> << >>]
  ELSE IF v.val.t = "obj" THEN [err |-> v.val.bad, claims |-> v.val.m]
  ELSE [err |-> TRUE, claims |-> << >>]

Unmarshal(raw) == UnmarshalValue(raw, ParseValue(raw, SkipWS(raw, 1)))

\* claims[key]: the value of the last member with that key.
HasKey(claims, key) == \E k \in 1..Len(claims) : claims[k].k = key

Lookup(claims, key) ==
  LET last == CHOOSE k \in 1..Len(claims) :
                /\ claims[k].k = key
                /\ \A j \in (k + 1)..Len(claims) : claims[j].k # key
  IN claims[last].v

\* ------------------------------------------------------------------------
\* The expiry gate (internal/http/handlers/middlewares.go).
\* ------------------------------------------------------------------------

\* int64(t) of a float64 t = mant * 10^e10: truncation toward zero.  A result
\* is [big |-> 0, v |-> n] for an n within a billion, [big |-> 1] for a larger
\* positive one (up to the largest int64) and [big |-> -1] for a lower
\* negative one.  Beyond int64 the amd64 build yields the least int64
\* whatever the sign, the arm64 build saturates.
Float64ToInt64(n, arch) ==
  LET order == NumDigits(n.mant) + n.e10
      mag == IF n.e10 >= 0 THEN n.mant * Pow10(n.e10) ELSE n.mant \div Pow10(0 - n.e10)
      fits == order <= 18 \/ (order = 19 /\ Lead9(n.mant) <= 922337203)
  IN IF n.mant = 0 \/ order <= 0 THEN [big |-> 0, v |-> 0]
     ELSE IF order <= 9 THEN [big |-> 0, v |-> IF n.neg THEN 0 - mag ELSE mag]
     ELSE IF fits THEN [big |-> IF n.neg THEN -1 ELSE 1]
     ELSE IF n.neg \/ arch = "amd64" THEN [big |-> -1]
     ELSE [big |-> 1]

\* now >= expInt, for a clock within a billion seconds.
NowAtOrAfter(now, expInt) ==
  IF expInt.big = 0 THEN now >= expInt.v ELSE expInt.big < 0

\* The claim name looked up in the payload: "exp".
ExpKey == Bytes(<<"e", "x", "p">>)

\* The payload segment decoded: raw URL-safe base64 first, standard base64
\* when that fails.
DecodeFallback(payload, first) ==
  IF first.err THEN StdDecodeString(payload) ELSE first

DecodePayload(payload) == DecodeFallback(payload, RawURLDecodeString(payload))

\* The result of tokenExpired when it returns an error.
Malformed == [err |-> TRUE, expired |-> FALSE]

\* tokenExpired from the exp claim v on.
ExpiryOf(v, now, arch) ==
  IF v.t # "num" THEN Malformed
  ELSE [err |-> FALSE, expired |-> NowAtOrAfter(now, Float64ToInt64(v, arch))]

\* Faulty variant: a payload without exp passes as one that never expires.
ExpiryOfClaims_MissingExpKept(u, now, arch) ==
  IF u.err THEN Malformed
  ELSE IF ~HasKey(u.claims, ExpKey) THEN [err |-> FALSE, expired |-> FALSE]
  ELSE ExpiryOf(Lookup(u.claims, ExpKey), now, arch)

\* tokenExpired from the result u of json.Unmarshal on.
ExpiryOfClaims(u, now, arch) ==
  IF u.err THEN Malformed
  ELSE IF ~HasKey(u.claims, ExpKey) THEN Malformed
  ELSE ExpiryOf(Lookup(u.claims, ExpKey), now, arch)

\* tokenExpired from the decoded payload dec on.
ExpiryOfPayload(dec, now, arch) ==
  IF dec.err THEN Malformed ELSE ExpiryOfClaims(Unmarshal(dec.raw), now, arch)

\* Faulty variant: a token must have exactly three segments.
ExpiryOfParts_ThreeSegments(parts, now, arch) ==
  IF Len(parts) # 3 THEN Malformed
  ELSE ExpiryOfPayload(DecodePayload(parts[2]), now, arch)

\* tokenExpired from the segments of the token on.
ExpiryOfParts(parts, now, arch) ==
  IF Len(parts) < 2 THEN Malformed
  ELSE ExpiryOfPayload(DecodePayload(parts[2]), now, arch)

\* tokenExpired: [err, expired] for a token at time now.
tokenExpired(token, now, arch) == ExpiryOfParts(Split(token), now, arch)

\* const prefix = "Bearer "
prefix == <<"B", "e", "a", "r", "e", "r", " ">>

\* Faulty variant: the credential is rewritten to "Bearer " + trimmed token.
Pairs_Canonical(auth) ==
  << [k |-> "authorization",
      v |-> prefix \o TrimSpace(SubSeq(auth, Len(prefix) + 1, Len(auth)))] >>

\* metadata.Pairs("authorization", auth)
Pairs(auth) == << [k |-> "authorization", v |-> auth] >>

\* Faulty variant: rejections are answered as server errors.
Reject_ServerError(msg) ==
  [status |-> 500, body |-> msg, written |-> TRUE, nextCalls |-> 0, md |-> << >>]

\* http.Error(w, msg, http.StatusUnauthorized) and return: a response is
\* written, the next handler is not called, no context is derived.
Reject(msg) ==
  [status |-> 401, body |-> msg, written |-> TRUE, nextCalls |-> 0, md |-> << >>]

\* The protected handler behind the gate (the tests' /protected route): it
\* answers 200 with a success message.
Downstream(md) ==
  [status |-> 200, body |-> "success", written |-> TRUE, nextCalls |-> 1, md |-> md]

\* Faulty variant: the cookie value is taken without the "Bearer " prefix.
ExtractAuth_BareCookie(r) ==
  IF r.header # << >> THEN r.header
  ELSE IF r.hasCookie /\ r.cookie # << >> THEN r.cookie
  ELSE << >>

\* Faulty variant: the cookie is looked at first, the header only without it.
ExtractAuth_CookieFirst(r) ==
  IF r.hasCookie /\ r.cookie # << >> THEN prefix \o r.cookie
  ELSE r.header

\* The credential the gate extracts: the Authorization header, or when that
\* is empty "Bearer " + the access_token cookie if the request has one with
\* a non-empty value.  A request is [header, hasCookie, cookie].
ExtractAuth(r) ==
  IF r.header # << >> THEN r.header
  ELSE IF r.hasCookie /\ r.cookie # << >> THEN prefix \o r.cookie
  ELSE << >>

\* Faulty variant: the return after the "expired" answer is missing, so the
\* next handler runs as well.
GateOnExpiry_NoReturn(auth, te) ==
  IF te.err THEN Reject("invalid access token")
  ELSE IF te.expired
    THEN [Reject("access token expired") EXCEPT !.nextCalls = 1, !.md = Pairs(auth)]
  ELSE Downstream(Pairs(auth))

\* The gate from the result te of tokenExpired on.
GateOnExpiry(auth, te) ==
  IF te.err THEN Reject("invalid access token")
  ELSE IF te.expired THEN Reject("access token expired")
  ELSE Downstream(Pairs(auth))

\* Faulty variant: a blank token is not told apart from a malformed one.
GateOnToken_NoEmptyCase(auth, raw, now, arch) ==
  GateOnExpiry(auth, tokenExpired(raw, now, arch))

\* The gate from the trimmed token raw on.
GateOnToken(auth, raw, now, arch) ==
  IF raw = << >> THEN Reject("empty access token")
  ELSE GateOnExpiry(auth, tokenExpired(raw, now, arch))

\* Faulty variant: the scheme is not compared, only the length is.
GateOnAuth_NoPrefixCheck(auth, now, arch) ==
  IF auth = << >> THEN Reject("missing access token")
  ELSE IF Len(auth) <= Len(prefix) THEN Reject("invalid access token")
  ELSE GateOnToken(auth, TrimSpace(SubSeq(auth, Len(prefix) + 1, Len(auth))), now, arch)

\* The gate from the extracted credential auth on.
GateOnAuth(auth, now, arch) ==
  IF auth = << >> THEN Reject("missing access token")
  ELSE IF Len(auth) <= Len(prefix) \/ ~EqualFold(SubSeq(auth, 1, Len(prefix)), prefix)
    THEN Reject("invalid access token")
  ELSE GateOnToken(auth, TrimSpace(SubSeq(auth, Len(prefix) + 1, Len(auth))), now, arch)

\* PropagateAuthToGRPC(next) serving request r at time now: the response,
\* how often next was called and the outgoing metadata of the context it
\* was called with.
PropagateAuthToGRPC(r, now, arch) == GateOnAuth(ExtractAuth(r), now, arch)

\* ------------------------------------------------------------------------
\* The requests the gate is given.
\* ------------------------------------------------------------------------

\* A token header.payload.signature as generateMockJWT of the tests builds
\* it: the payload is the unpadded URL-safe base64 of the claims text.
generateMockJWT(header, claimsText, signature) ==
  header \o <<".">> \o base64URLEncode(Bytes(claimsText)) \o <<".">> \o signature

\* The claims text {"exp":<literal>}.
ExpClaims(literal) ==
  <<"{", "\"", "e", "x", "p", "\"", ":">> \o literal \o <<"}">>

Exp2 == ExpClaims(<<"2">>)

\* The tokens of the model whose exp is a number: whole seconds, a fraction,
\* a value beyond int64, a negative one, and a value of ten digits and an
\* exponent that int64 holds.
WellFormedTokens ==
  { generateMockJWT(<<"h">>, ExpClaims(e), <<"s">>) :
      e \in { <<"1">>, <<"2">>, <<"2", ".", "5">>, <<"1", "e", "1", "9">>, <<"-", "1">>,
              <<"1", "0", "0", "0", "0", "0", "0", "0", "0", "0", "e", "9">> } }

\* Tokens that differ from Token2 in a segment: other header and signature,
\* no signature, a fourth segment, and the payload {"exp": 2} in padded
\* standard base64, as an issuer that pads writes it.
SegmentVariants ==
  { generateMockJWT(<<"g">>, Exp2, <<"t">>),
    <<"h", ".">> \o base64URLEncode(Bytes(Exp2)),
    generateMockJWT(<<"h">>, Exp2, <<"s", ".", "x">>),
    <<"h", ".">>
      \o <<"e", "y", "J", "l", "e", "H", "A", "i", "O", "i", "A", "y", "f", "Q", "=", "=">>
      \o <<".", "s">> }

\* Tokens without a usable exp: an exp that is a string or null, claims
\* with no exp key, claims that are not an object, the null value, a
\* truncated object, and tokens that are no three segments of base64.
MalformedTokens ==
  { generateMockJWT(<<"h">>, ExpClaims(e), <<"s">>) :
      e \in { <<"\"", "2", "\"">>, <<"n", "u", "l", "l">> } }
  \cup { generateMockJWT(<<"h">>, c, <<"s">>) :
           c \in { <<"{", "\"", "s", "u", "b", "\"", ":", "\"", "u", "\"", "}">>,
                   <<"[", "2", "]">>,
                   <<"n", "u", "l", "l">>,
                   <<"{", "\"", "e", "x", "p", "\"", ":", "2">> } }
  \cup { <<"x">>, <<"h", ".", "!", ".", "s">>, <<"h", ".", "e", ".", "s">> }

Tokens == WellFormedTokens \cup SegmentVariants \cup MalformedTokens

Token2 == generateMockJWT(<<"h">>, Exp2, <<"s">>)

Token1 == generateMockJWT(<<"h">>, ExpClaims(<<"1">>), <<"s">>)

\* Authorization header values that are not "Bearer " + token: another case
\* of the scheme, spaces around the token, no scheme, another scheme, the
\* bare prefix, the prefix followed by spaces only, and a short value.
OddHeaders ==
  { <<"b", "e", "a", "r", "e", "r", " ">> \o Token2,
    <<"B", "E", "A", "R", "E", "R", " ">> \o Token2,
    prefix \o <<" ">> \o Token2 \o <<" ">>,
    Token2,
    <<"B", "a", "s", "i", "c", " ">> \o Token2,
    prefix,
    prefix \o <<" ", " ">>,
    <<"B", "e", "a", "r">> }

HeaderOnly(h) == [header |-> h, hasCookie |-> FALSE, cookie |-> << >>]

CookieOnly(c) == [header |-> << >>, hasCookie |-> TRUE, cookie |-> c]

\* The requests of the model: a header only, a cookie only (empty included),
\* neither, and a header together with a cookie that holds a good token.
Requests ==
  { HeaderOnly(prefix \o t) : t \in Tokens }
  \cup { HeaderOnly(h) : h \in OddHeaders }
  \cup { CookieOnly(t) : t \in Tokens \cup { << >>, << " " >> } }
  \cup { HeaderOnly(<< >>) }
  \cup { [header |-> h, hasCookie |-> TRUE, cookie |-> Token2] :
           h \in { prefix \o Token1, prefix \o <<"x">>, <<"B", "e", "a", "r">> } }

\* ------------------------------------------------------------------------
\* The token issuance responder (AuthManager.LoginHandler, RefreshHandler,
\* setRefreshTokenInCookie, setAccessTokenInCookie).
\* ------------------------------------------------------------------------

\* Nanoseconds in a second (time.Second).
NanosPerSecond == 1000000000

\* The default lifetime of an access cookie, in seconds (5 * time.Minute).
DefaultAccessSeconds == 300

\* A *durationpb.Duration: nil, or seconds and nanos.
NilDuration == [nil |-> TRUE, seconds |-> 0, nanos |-> 0]

DurationOf(s, n) == [nil |-> FALSE, seconds |-> s, nanos |-> n]

\* AsDuration: the time.Duration seconds * 1e9 + nanos, kept as its whole
\* seconds (d / time.Second) and its remainder (d % time.Second), which has
\* the sign of the duration.  The nanos of a message may be any int32; the
\* seconds of the model stay far below those whose product saturates.
AsDuration(d) ==
  LET whole == d.seconds + (d.nanos \div NanosPerSecond)
      rest == d.nanos % NanosPerSecond
  IN IF whole < 0 /\ rest > 0
     THEN [sec |-> whole + 1, nanos |-> rest - NanosPerSecond]
     ELSE [sec |-> whole, nanos |-> rest]

\* The least number of seconds at which a float64 no longer tells a
\* nanosecond below the next second from that second: 2^24.
CoarseSeconds == 16777216

\* The binary exponent of a whole number n >= 1: 2^Log2(n) <= n.
RECURSIVE Log2(_)
Log2(n) == IF n < 2 THEN 0 ELSE 1 + Log2(n \div 2)

RECURSIVE Pow2(_)
Pow2(k) == IF k <= 0 THEN 1 ELSE 2 * Pow2(k - 1)

\* d.Seconds() is float64(sec) + float64(nsec)/1e9 rounded to the nearest
\* float64.  For sec >= 0 and nsec > 0 the sum is the next whole second when
\* 1 - nsec/1e9 is under half a unit in the last place of sec, 2^(Log2(sec)-53).
RoundsToNextSecond(sec, nsec) ==
  /\ sec >= CoarseSeconds
  /\ nsec > 0
  /\ NanosPerSecond - nsec <= NanosPerSecond \div Pow2(53 - Log2(sec))

\* int64(d.Seconds()): the float64 seconds of a duration, truncated toward
\* zero.
SecondsInt64(dur) ==
  IF dur.sec >= 0 /\ dur.nanos >= 0
  THEN IF RoundsToNextSecond(dur.sec, dur.nanos) THEN dur.sec + 1 ELSE dur.sec
  ELSE IF RoundsToNextSecond(0 - dur.sec, 0 - dur.nanos) THEN dur.sec - 1 ELSE dur.sec

\* time.Now().Add(dur) as an instant [set, sec, nanos], the clock being at
\* a whole second.
NowAdd(now, dur) ==
  IF dur.nanos < 0
  THEN [set |-> TRUE, sec |-> now + dur.sec - 1, nanos |-> dur.nanos + NanosPerSecond]
  ELSE [set |-> TRUE, sec |-> now + dur.sec, nanos |-> dur.nanos]

\* The zero time.Time of a cookie without Expires.
NoExpiry == [set |-> FALSE, sec |-> 0, nanos |-> 0]

\* A response writer before anything is written to it.
NewResponse ==
  [status |-> 0, text |-> "", keys |-> {}, user_id |-> "", access_token |-> << >>,
   access_expires_in_seconds |-> 0, cookies |-> << >>, authorization |-> << >>,
   expose |-> "", contentType |-> "", late |-> ""]

\* http.Error(w, msg, code): a plain-text body with the status code; what
\* was set on the writer before (cookies, other headers) stays.  Once a
\* status is committed it cannot change: the message only follows (late).
Error(w, msg, code) ==
  IF w.status = 0
  THEN [w EXCEPT !.status = code, !.text = msg,
                 !.contentType = "text/plain; charset=utf-8"]
  ELSE [w EXCEPT !.late = msg]

\* http.SetCookie(w, c): one more Set-Cookie header.  The header carries
\* the Expires attribute of a cookie whose Expires is set, in whole seconds.
SetCookie(w, c) ==
  [w EXCEPT !.cookies =
     Append(@, [name |-> c.name, value |-> c.value, path |-> c.path,
                httpOnly |-> c.httpOnly, sameSite |-> c.sameSite,
                secure |-> c.secure, expires |-> c.expires,
                expiresAttr |-> IF c.expires.set THEN <<c.expires.sec>> ELSE << >>])]

\* Faulty variant: the refresh cookie is always marked Secure.
setRefreshTokenInCookie_AlwaysSecure(w, tls, resp, now) ==
  SetCookie(w,
    [name |-> "refresh_token", value |-> resp.RefreshToken, path |-> "/",
     httpOnly |-> TRUE, sameSite |-> "Lax", secure |-> TRUE,
     expires |-> IF ~resp.RefreshExpiresIn.nil
                 THEN NowAdd(now, AsDuration(resp.RefreshExpiresIn))
                 ELSE NoExpiry])

\* setRefreshTokenInCookie
setRefreshTokenInCookie(w, tls, resp, now) ==
  SetCookie(w,
    [name |-> "refresh_token", value |-> resp.RefreshToken, path |-> "/",
     httpOnly |-> TRUE, sameSite |-> "Lax", secure |-> tls,
     expires |-> IF ~resp.RefreshExpiresIn.nil
                 THEN NowAdd(now, AsDuration(resp.RefreshExpiresIn))
                 ELSE NoExpiry])

\* Faulty variant: without a backend lifetime the access cookie gets no
\* expiry.
setAccessTokenInCookie_SessionDefault(w, tls, resp, now) ==
  LET ac == [name |-> "access_token", value |-> resp.AccessToken, path |-> "/",
             httpOnly |-> TRUE, sameSite |-> "Lax", secure |-> tls,
             expires |-> IF ~resp.AccessExpiresIn.nil
                         THEN NowAdd(now, AsDuration(resp.AccessExpiresIn))
                         ELSE NoExpiry]
  IN [SetCookie(w, ac) EXCEPT !.authorization = prefix \o resp.AccessToken,
                              !.expose = "Authorization"]

\* Faulty variant: the Authorization header is set but not exposed.
setAccessTokenInCookie_NotExposed(w, tls, resp, now) ==
  LET ac == [name |-> "access_token", value |-> resp.AccessToken, path |-> "/",
             httpOnly |-> TRUE, sameSite |-> "Lax", secure |-> tls,
             expires |-> IF ~resp.AccessExpiresIn.nil
                         THEN NowAdd(now, AsDuration(resp.AccessExpiresIn))
                         ELSE NowAdd(now, [sec |-> DefaultAccessSeconds, nanos |-> 0])]
  IN [SetCookie(w, ac) EXCEPT !.authorization = prefix \o resp.AccessToken]

\* setAccessTokenInCookie: the cookie, and the token echoed in the
\* Authorization header, which is exposed to cross-origin callers.
setAccessTokenInCookie(w, tls, resp, now) ==
  LET ac == [name |-> "access_token", value |-> resp.AccessToken, path |-> "/",
             httpOnly |-> TRUE, sameSite |-> "Lax", secure |-> tls,
             expires |-> IF ~resp.AccessExpiresIn.nil
                         THEN NowAdd(now, AsDuration(resp.AccessExpiresIn))
                         ELSE NowAdd(now, [sec |-> DefaultAccessSeconds, nanos |-> 0])]
  IN [SetCookie(w, ac) EXCEPT !.authorization = prefix \o resp.AccessToken,
                              !.expose = "Authorization"]

\* Faulty variant: the refresh cookie is set whether or not there is a
\* refresh token.
SetTokenCookies_Unconditional(w, tls, resp, now) ==
  IF resp.AccessToken # << >>
  THEN setAccessTokenInCookie(setRefreshTokenInCookie(w, tls, resp, now), tls, resp, now)
  ELSE setRefreshTokenInCookie(w, tls, resp, now)

\* The cookies of a token response: the refresh cookie first, then the
\* access cookie, each only for a non-empty token.
SetTokenCookies(w, tls, resp, now) ==
  LET w1 == IF resp.RefreshToken # << >>
            THEN setRefreshTokenInCookie(w, tls, resp, now) ELSE w
  IN IF resp.AccessToken # << >>
     THEN setAccessTokenInCookie(w1, tls, resp, now) ELSE w1

\* Faulty variant: the lifetime is left out of a body without access token.
EncodeTokenBody_LifetimeWithTokenOnly(w, resp, enc) ==
  LET keys == {"user_id"}
              \cup (IF resp.AccessToken # << >> THEN {"access_token"} ELSE {})
              \cup (IF ~resp.AccessExpiresIn.nil /\ resp.AccessToken # << >>
                    THEN {"access_expires_in_seconds"} ELSE {})
  IN IF enc = "ok"
     THEN [w EXCEPT
             !.status = 200,
             !.contentType = "application/json",
             !.keys = keys,
             !.user_id = resp.UserId,
             !.access_token = resp.AccessToken,
             !.access_expires_in_seconds =
                IF "access_expires_in_seconds" \in keys
                THEN SecondsInt64(AsDuration(resp.AccessExpiresIn)) ELSE 0]
     ELSE Error([w EXCEPT !.status = IF enc = "refused" THEN 0 ELSE 200,
                          !.contentType = "application/json"],
                "Failed to encode response", 500)

\* How json.NewEncoder(w).Encode ends: "ok"; "refused", an error before the
\* writer has committed a status (the value cannot be marshalled, or the
\* writer rejects the write outright); "broken", an error of the write after
\* it committed status 200 (the connection fails under the body).
Encodings == {"ok", "refused", "broken"}

\* The JSON body of a token response and its encoding onto the writer.  When
\* the encoding fails no body arrives and the handler calls http.Error, on
\* a response that is committed or not.
EncodeTokenBody(w, resp, enc) ==
  LET keys == {"user_id"}
              \cup (IF resp.AccessToken # << >> THEN {"access_token"} ELSE {})
              \cup (IF ~resp.AccessExpiresIn.nil
                    THEN {"access_expires_in_seconds"} ELSE {})
      out == [w EXCEPT
                !.status = 200,
                !.contentType = "application/json",
                !.keys = keys,
                !.user_id = resp.UserId,
                !.access_token = IF "access_token" \in keys THEN resp.AccessToken ELSE << >>,
                !.access_expires_in_seconds =
                   IF "access_expires_in_seconds" \in keys
                   THEN SecondsInt64(AsDuration(resp.AccessExpiresIn)) ELSE 0]
      committed == [w EXCEPT !.status = 200, !.contentType = "application/json"]
      pending == [w EXCEPT !.contentType = "application/json"]
  IN IF enc = "ok" THEN out
     ELSE IF enc = "refused" THEN Error(pending, "Failed to encode response", 500)
     ELSE Error(committed, "Failed to encode response", 500)

\* Faulty variant: the password is not looked at.
LoginHandlerBegin_UsernameOnly(w, req) ==
  IF ~req.bodyOk THEN Error(w, "Invalid request", 400)
  ELSE IF req.username = "" THEN Error(w, "Invalid request", 400)
  ELSE w

\* LoginHandler up to its backend call: the response when it answers without
\* calling (status 0 when it goes on to call am.Client.Login).  A request is
\* [bodyOk, username, password, tls].
LoginHandlerBegin(w, req) ==
  IF ~req.bodyOk THEN Error(w, "Invalid request", 400)
  ELSE IF req.username = "" \/ req.password = "" THEN Error(w, "Invalid request", 400)
  ELSE w

\* Faulty variant: a failed Login is answered with a fixed text.
LoginHandlerEnd_FixedText(w, req, reply, enc, now) ==
  IF reply.failed THEN Error(w, "Failed to login", 500)
  ELSE EncodeTokenBody(SetTokenCookies(w, req.tls, reply.resp, now), reply.resp, enc)

\* LoginHandler after am.Client.Login returned reply = [failed, errText, resp].
LoginHandlerEnd(w, req, reply, enc, now) ==
  IF reply.failed THEN Error(w, reply.errText, 500)
  ELSE EncodeTokenBody(SetTokenCookies(w, req.tls, reply.resp, now), reply.resp, enc)

\* RefreshHandler up to its backend call.
RefreshHandlerBegin(w, req) ==
  IF ~req.bodyOk THEN Error(w, "Failed to decode requets body", 400)
  ELSE w

\* Faulty variant: a failed refresh clears the refresh cookie.
RefreshHandlerEnd_CookieOnFailure(w, req, reply, enc, now) ==
  IF reply.failed
  THEN Error(setRefreshTokenInCookie(w, req.tls, reply.resp, now),
             "Failed to refresh token", 500)
  ELSE EncodeTokenBody(SetTokenCookies(w, req.tls, reply.resp, now), reply.resp, enc)

\* RefreshHandler after am.Client.Refresh returned.
RefreshHandlerEnd(w, req, reply, enc, now) ==
  IF reply.failed THEN Error(w, "Failed to refresh token", 500)
  ELSE EncodeTokenBody(SetTokenCookies(w, req.tls, reply.resp, now), reply.resp, enc)

\* Faulty variant: the body of a register response has a token key as well.
EncodeUserBody_WithToken(w, resp, enc) ==
  IF enc = "ok"
  THEN [w EXCEPT !.status = 200, !.contentType = "application/json",
                 !.keys = {"user_id", "access_token"}, !.user_id = resp.UserId]
  ELSE Error([w EXCEPT !.contentType = "application/json"],
             "Failed to encode response", 500)

\* The body of a register response: user_id alone.
EncodeUserBody(w, resp, enc) ==
  IF enc = "ok"
  THEN [w EXCEPT !.status = 200, !.contentType = "application/json",
                 !.keys = {"user_id"}, !.user_id = resp.UserId]
  ELSE IF enc = "refused"
  THEN Error([w EXCEPT !.contentType = "application/json"],
             "Failed to encode response", 500)
  ELSE Error([w EXCEPT !.status = 200, !.contentType = "application/json"],
             "Failed to encode response", 500)

\* RegisterHandler up to its backend call.
RegisterHandlerBegin(w, req) ==
  IF ~req.bodyOk THEN Error(w, "Failed to decode request body", 400)
  ELSE w

\* RegisterHandler after am.Client.Register returned.
RegisterHandlerEnd(w, req, reply, enc, now) ==
  IF reply.failed THEN Error(w, "Failed to register user", 500)
  ELSE EncodeUserBody(w, reply.resp, enc)

\* ------------------------------------------------------------------------
\* The inventory handlers (InvManager.CreateHandler, GetHandler,
\* UpdateHandler, DeleteHandler, ListHandler).  The five differ in the
\* backend method they call and in the text of a failed call; the body of a
\* success is the backend's message, of which the model keeps nothing.
\* ------------------------------------------------------------------------

\* An inventory handler up to its backend call.
InvHandlerBegin(w, req) ==
  IF ~req.bodyOk THEN Error(w, "failed to decode request body", 400)
  ELSE w

\* json.NewEncoder(w).Encode of the backend's message.
EncodeResult(w, enc) ==
  IF enc = "ok"
  THEN [w EXCEPT !.status = 200, !.contentType = "application/json"]
  ELSE IF enc = "refused"
  THEN Error([w EXCEPT !.contentType = "application/json"],
             "failed to encode result", 500)
  ELSE Error([w EXCEPT !.status = 200, !.contentType = "application/json"],
             "failed to encode result", 500)

\* Faulty variant: every failed call is answered with the same text.
InvHandlerEnd_Generic(failText, w, reply, enc) ==
  IF reply.failed THEN Error(w, "internal error", 500)
  ELSE EncodeResult(w, enc)

\* An inventory handler after its backend call returned; failText is the
\* text it answers a failed call with.
InvHandlerEnd(failText, w, reply, enc) ==
  IF reply.failed THEN Error(w, failText, 500)
  ELSE EncodeResult(w, enc)

CreateHandlerEnd(w, reply, enc) == InvHandlerEnd("failed to create product", w, reply, enc)

GetHandlerEnd(w, reply, enc) == InvHandlerEnd("failed to get product", w, reply, enc)

UpdateHandlerEnd(w, reply, enc) == InvHandlerEnd("failed to update product", w, reply, enc)

DeleteHandlerEnd(w, reply, enc) == InvHandlerEnd("failed to delete product", w, reply, enc)

ListHandlerEnd(w, reply, enc) == InvHandlerEnd("failed to list products", w, reply, enc)

\* ------------------------------------------------------------------------
\* The two other routes of /auth: revoke and health.
\* ------------------------------------------------------------------------

\* RevokeHandler up to its backend call.  The handler is known by its route
\* and by TestRevokeHandler_Success; that a body which does not decode is
\* answered 400 is what every other handler does, and the text of that answer
\* is not known (kept empty).
RevokeHandlerBegin(w, req) ==
  IF ~req.bodyOk THEN Error(w, "", 400)
  ELSE w

\* RevokeHandler after am.Client.Revoke returned: a JSON body with the one
\* member Message, "Token revoked" (kept in text), and status 200.  The
\* answer to a failed call is taken to be 500 as in every other handler, its
\* text is not known (kept empty).
RevokeHandlerEnd(w, reply, enc) ==
  IF reply.failed THEN Error(w, "", 500)
  ELSE IF enc = "ok"
  THEN [w EXCEPT !.status = 200, !.contentType = "application/json",
                 !.keys = {"Message"}, !.text = "Token revoked"]
  ELSE IF enc = "refused"
  THEN Error([w EXCEPT !.contentType = "application/json"], "", 500)
  ELSE Error([w EXCEPT !.status = 200, !.contentType = "application/json"], "", 500)

\* CheckHealth: the content type is set and the body {"status": "healthy"}
\* written (its member kept in text); no backend is called.  When the write
\* fails http.Error follows, on a writer the write has committed or not.
CheckHealth(w, enc) ==
  IF enc = "ok"
  THEN [w EXCEPT !.status = 200, !.contentType = "application/json",
                 !.keys = {"status"}, !.text = "healthy"]
  ELSE IF enc = "refused"
  THEN Error([w EXCEPT !.contentType = "application/json"],
             "Failed to connect to auth service", 503)
  ELSE Error([w EXCEPT !.status = 200, !.contentType = "application/json"],
             "Failed to connect to auth service", 503)

\* ------------------------------------------------------------------------
\* The requests and backend replies of the handlers.
\* ------------------------------------------------------------------------

InvHandlers == {"create", "get", "update", "delete", "list"}

\* The ten routes main registers.
Handlers == {"login", "refresh", "register", "revoke", "health"} \cup InvHandlers

\* A request to the issuance or inventory routes: whether its body decodes,
\* the fields of the body, whether it came over TLS, and the credential it
\* carries (none, or a token good until time 2).
IssueRequests ==
  [bodyOk : BOOLEAN, username : {"", "alice"}, password : {"", "secret"}, tls : BOOLEAN,
   auth : { HeaderOnly(<< >>), HeaderOnly(prefix \o Token2) }]

\* Lifetimes a backend may send: none, five minutes, a day, one and a half
\* seconds written as nanos alone, minus half a second, and 194 days less a
\* nanosecond.
Lifetimes ==
  { NilDuration, DurationOf(300, 0), DurationOf(86400, 0),
    DurationOf(0, 1500000000), DurationOf(0, -500000000),
    DurationOf(CoarseSeconds, NanosPerSecond - 1) }

RefreshTokenR1 == <<"r", "1">>

EmptyTokenResponse ==
  [UserId |-> "", AccessToken |-> << >>, RefreshToken |-> << >>,
   AccessExpiresIn |-> NilDuration, RefreshExpiresIn |-> NilDuration]

\* Error texts a backend call may fail with.
BackendErrorTexts == {"invalid credentials", "connection refused"}

\* What a backend call may return: a token response, or an error.
Replies ==
  { [failed |-> FALSE, errText |-> "", resp |-> t] :
      t \in [UserId : {"u1"},
             AccessToken : {<< >>, Token2},
             RefreshToken : {<< >>, RefreshTokenR1},
             AccessExpiresIn : Lifetimes,
             RefreshExpiresIn : { NilDuration, DurationOf(86400, 0) }] }
  \cup { [failed |-> TRUE, errText |-> e, resp |-> EmptyTokenResponse] :
           e \in BackendErrorTexts }


\* ------------------------------------------------------------------------
\* What a backend call returns to each handler, and the request's context.
\* ------------------------------------------------------------------------

\* The error of a call whose context was cancelled while it was in flight.
CanceledReply ==
  [failed |-> TRUE, errText |-> "context canceled", resp |-> EmptyTokenResponse]

\* Faulty variant: the call is made with a context of its own.
CallContext_Background(h) == "background"

\* The context a handler hands to its backend call: r.Context().
CallContext(h) == "request"

\* What a call made with context cc on a client of kind client may return
\* when the request's context is in state ctx: "live", "canceled" (cancelled
\* while the call waits for the backend) or "raced" (cancelled when the
\* backend's reply had reached the client but not yet the handler).  The
\* backend replies to login and refresh with any token response, to the
\* other handlers with a message that has no tokens.  The gRPC client main
\* builds ends a call whose context is done: the call returns the
\* cancellation, or, in a race, the reply that was there first.  The mock
\* clients of the tests do not look at the context.
CallReturns(h, cc, ctx, client) ==
  LET sent == IF h \in {"login", "refresh"} THEN Replies
              ELSE { r \in Replies :
                       r.failed \/ (/\ r.resp.AccessToken = << >>
                                    /\ r.resp.RefreshToken = << >>
                                    /\ r.resp.AccessExpiresIn = NilDuration
                                    /\ r.resp.RefreshExpiresIn = NilDuration) }
  IN IF client = "mock" \/ cc # "request" \/ ctx = "live" THEN sent
     ELSE IF ctx = "raced" THEN sent \cup { CanceledReply }
     ELSE { CanceledReply }

\* The routes main puts behind PropagateAuthToGRPC: main calls no r.Use.
GatedRoutes == {}

\* What reaches the handler of route h: the gate's result where the route
\* is gated, the request as it came (no outgoing metadata) where it is not.
Route(h, req, t, a) ==
  IF h \in GatedRoutes THEN PropagateAuthToGRPC(req.auth, t, a)
  ELSE [status |-> 0, body |-> "", written |-> FALSE, nextCalls |-> 1, md |-> << >>]

\* ------------------------------------------------------------------------
\* main: serving, the shutdown signal, server.Shutdown with its deadline.
\* ------------------------------------------------------------------------

\* context.WithTimeout(context.Background(), 15*time.Second)
GraceSeconds == 15

\* The seconds of a Shutdown the model follows.
MaxElapsed == 17

\* The connections the server may hold, each with at most one request in
\* flight.
InFlightIds == {"r1", "r2", "r3"}

\* Faulty variant: the shutdown context has no deadline.
DeadlineExceeded_Never(elapsed) == FALSE

\* The shutdown context is done.
DeadlineExceeded(elapsed) == elapsed >= GraceSeconds

\* main has returned or panicked: the process is gone.
Terminated(p) == p.pc \in {"exited", "panicked"}

\* ------------------------------------------------------------------------
\* The logger package.
\* ------------------------------------------------------------------------

\* strings.ToLower on an ASCII string.
ToLowerString(s) == [k \in 1..Len(s) |-> ToLower(s[k])]

\* The string literals of the package, and two file names.
Lit ==
  [debug |-> <<"d", "e", "b", "u", "g">>,
   info |-> <<"i", "n", "f", "o">>,
   warn |-> <<"w", "a", "r", "n">>,
   warning |-> <<"w", "a", "r", "n", "i", "n", "g">>,
   error |-> <<"e", "r", "r", "o", "r">>,
   dpanic |-> <<"d", "p", "a", "n", "i", "c">>,
   panic |-> <<"p", "a", "n", "i", "c">>,
   fatal |-> <<"f", "a", "t", "a", "l">>,
   console |-> <<"c", "o", "n", "s", "o", "l", "e">>,
   json |-> <<"j", "s", "o", "n">>,
   stdout |-> <<"s", "t", "d", "o", "u", "t">>,
   stderr |-> <<"s", "t", "d", "e", "r", "r">>,
   app |-> <<"a", ".", "l", "o", "g">>,
   gw |-> <<"/", "g", "w">>]

\* zapcore.Level.UnmarshalText: a level name in either case, or nothing.
UnmarshalText(l) ==
  LET t == ToLowerString(l)
  IN IF t = Lit.debug THEN [err |-> FALSE, level |-> "debug"]
     ELSE IF t = Lit.info \/ t = << >> THEN [err |-> FALSE, level |-> "info"]
     ELSE IF t = Lit.warn THEN [err |-> FALSE, level |-> "warn"]
     ELSE IF t = Lit.error THEN [err |-> FALSE, level |-> "error"]
     ELSE IF t = Lit.dpanic THEN [err |-> FALSE, level |-> "dpanic"]
     ELSE IF t = Lit.panic THEN [err |-> FALSE, level |-> "panic"]
     ELSE IF t = Lit.fatal THEN [err |-> FALSE, level |-> "fatal"]
     ELSE [err |-> TRUE, level |-> "info"]

\* parseLevel
parseLevel(l) ==
  IF l = << >> THEN [err |-> FALSE, level |-> "info"]
  ELSE LET t == ToLowerString(TrimSpace(l))
       IN IF t = Lit.debug THEN [err |-> FALSE, level |-> "debug"]
          ELSE IF t = Lit.info THEN [err |-> FALSE, level |-> "info"]
          ELSE IF t = Lit.warn \/ t = Lit.warning THEN [err |-> FALSE, level |-> "warn"]
          ELSE IF t = Lit.error THEN [err |-> FALSE, level |-> "error"]
          ELSE IF t = Lit.dpanic THEN [err |-> FALSE, level |-> "dpanic"]
          ELSE IF t = Lit.panic THEN [err |-> FALSE, level |-> "panic"]
          ELSE IF t = Lit.fatal THEN [err |-> FALSE, level |-> "fatal"]
          ELSE UnmarshalText(l)

\* A nil *zap.Logger or *zap.SugaredLogger.
NilLogger ==
  [nil |-> TRUE, level |-> "", console |-> FALSE, development |-> FALSE, sinks |-> << >>]

\* The package variables before any call.
LoggerStart == [zapLogger |-> NilLogger, sugar |-> NilLogger, initialized |-> FALSE]

\* The loop over cfg.OutputPaths: the sinks added to syncers, or the error of
\* the first file that cannot be opened; openable is the set of files
\* os.OpenFile succeeds on.
RECURSIVE OutputSinks(_, _, _)
OutputSinks(paths, openable, syncers) ==
  IF paths = << >> THEN [err |-> FALSE, syncers |-> syncers]
  ELSE LET p == Head(paths)
           lower == ToLowerString(p)
       IN IF lower = Lit.stdout THEN OutputSinks(Tail(paths), openable, syncers)
          ELSE IF lower = Lit.stderr
          THEN OutputSinks(Tail(paths), openable, Append(syncers, "stderr"))
          ELSE IF p \notin openable THEN [err |-> TRUE, syncers |-> syncers]
          ELSE OutputSinks(Tail(paths), openable, Append(syncers, "file"))

\* The sink of cfg.Filename: a rotating file, a plain file, or none.
FileSink(cfg, openable, syncers) ==
  IF cfg.FileRotation /\ cfg.Filename # << >>
  THEN [err |-> FALSE, syncers |-> Append(syncers, "rotating")]
  ELSE IF cfg.Filename # << >> /\ ~cfg.FileRotation
  THEN (IF cfg.Filename \notin openable THEN [err |-> TRUE, syncers |-> syncers]
        ELSE [err |-> FALSE, syncers |-> Append(syncers, "file")])
  ELSE [err |-> FALSE, syncers |-> syncers]

\* Faulty variant: a failing Init puts the previous logger back.
InitFailed_KeepPrevious(st, reset) == [st |-> st, err |-> TRUE]

\* Init returning an error on a package that stood as st when Init was
\* called: the package stays as the first lines of Init left it (reset).
InitFailed(st, reset) == [st |-> reset, err |-> TRUE]

\* Init from the sinks on: zap.New, Sugar, initialized = true.  The
\* encoding is the one given, or by default console in development and json
\* otherwise.
InitBuild(cfg, level, sinks) ==
  LET encoding == IF cfg.Encoding = << >>
                  THEN (IF cfg.Development THEN Lit.console ELSE Lit.json)
                  ELSE cfg.Encoding
      l == [nil |-> FALSE, level |-> level,
            console |-> EqualFold(encoding, Lit.console),
            development |-> cfg.Development, sinks |-> sinks]
  IN [st |-> [zapLogger |-> l, sugar |-> l, initialized |-> TRUE], err |-> FALSE]

\* Init from the output paths on.
InitSinks(st, reset, cfg, level, openable) ==
  LET out == OutputSinks(cfg.OutputPaths, openable, << "stdout" >>)
  IN IF out.err THEN InitFailed(st, reset)
     ELSE LET f == FileSink(cfg, openable, out.syncers)
          IN IF f.err THEN InitFailed(st, reset)
             ELSE InitBuild(cfg, level, f.syncers)

\* logger.Init(cfg) on package state st: the state it leaves and whether it
\* returned an error.  A package that was initialized is taken down first.
LoggerInit(st, cfg, openable) ==
  LET reset == IF st.initialized THEN LoggerStart ELSE st
      lv == parseLevel(cfg.Level)
  IN IF lv.err THEN InitFailed(st, reset)
     ELSE InitSinks(st, reset, cfg, lv.level, openable)

\* logger.Sync(): nil when there is no logger, else what zapLogger.Sync()
\* returns (syncErr).
LoggerSync(st, syncErr) == IF ~st.zapLogger.nil THEN syncErr ELSE FALSE

\* The first lines of Logger() and of Sugar(): Init(Config{}) unless
\* initialized.
EnsureInit(st) ==
  IF ~st.initialized
  THEN LoggerInit(st, [Level |-> << >>, Encoding |-> << >>, Development |-> FALSE,
                       OutputPaths |-> << >>, FileRotation |-> FALSE,
                       Filename |-> << >>], {}).st
  ELSE st

\* The configurations of the model.
LogConfigs ==
  [Level : { << >>, <<" ", "D", "e", "b", "u", "g", " ">>,
             <<"W", "A", "R", "N", "I", "N", "G">>,
             <<"v", "e", "r", "b", "o", "s", "e">>, <<" ">> },
   Encoding : { << >>, <<"C", "o", "n", "s", "o", "l", "e">> },
   Development : BOOLEAN,
   OutputPaths : { << >>, << <<"S", "T", "D", "E", "R", "R">> >>,
                   << Lit.stdout, Lit.gw >> },
   FileRotation : BOOLEAN,
   Filename : { << >>, Lit.app }]
\* ------------------------------------------------------------------------
\* State.
\* ------------------------------------------------------------------------

VARIABLES
  now,    \* time.Now().Unix()
  arch,   \* the build the gateway runs as
  gate,   \* per connection: the request served by the gated route and its result
  issue,  \* per connection: the login or refresh request being served
  proc,   \* main: where it stands, the listener, the requests in flight,
          \* the signal channel (chan) and the server's error channel
  log     \* the logger package: its variables (pkg), the last call and its return,
          \* whether Init ever ran (everInit) and whether the package was
          \* initialized when the last call began (was)

vars == <<now, arch, gate, issue, proc, log>>

\* The connections that carry requests to the gated route.
Conns == {"c1", "c2"}

\* The connections that carry requests to the /auth and /inventory routes.
AuthConns == {"a1"}

Idle == [pc |-> "idle"]

Init ==
  /\ now = 0
  /\ arch \in {"amd64", "arm64"}
  /\ gate = [c \in Conns |-> Idle]
  /\ issue = [c \in AuthConns |-> Idle]
  /\ proc = [pc |-> "serving", listening |-> TRUE, inflight |-> {}, fresh |-> {},
             stale |-> {}, idle |-> {}, chan |-> 0,
             svrError |-> 0, elapsed |-> 0, lnerr |-> FALSE, aborted |-> {},
             signalled |-> FALSE, waiting |-> FALSE]
  /\ log = [pkg |-> LoggerStart, call |-> "none", err |-> FALSE, got |-> NilLogger,
            everInit |-> FALSE, was |-> FALSE]

\* The clock advances.
Tick ==
  /\ now < MaxTime
  /\ now' = now + 1
  /\ UNCHANGED <<arch, gate, issue, proc, log>>

\* The server runs the gated route's handler chain on a request.
Serve(c, r) ==
  /\ gate[c].pc = "idle"
  /\ gate' = [gate EXCEPT ![c] =
       [pc |-> "done", req |-> r, at |-> now, res |-> PropagateAuthToGRPC(r, now, arch)]]
  /\ UNCHANGED <<now, arch, issue, proc, log>>

\* The connection is ready for its next request.
Finish(c) ==
  /\ gate[c].pc = "done"
  /\ gate' = [gate EXCEPT ![c] = Idle]
  /\ UNCHANGED <<now, arch, issue, proc, log>>

\* The handler of route h up to its backend call, or to its end when it
\* calls none; enc is how the write of a handler that writes at once ends.
\* A route main does not register is answered by the router.
HandlerBegin(h, w, req, enc) ==
  IF h = "login" THEN LoginHandlerBegin(w, req)
  ELSE IF h = "refresh" THEN RefreshHandlerBegin(w, req)
  ELSE IF h = "register" THEN RegisterHandlerBegin(w, req)
  ELSE IF h = "revoke" THEN RevokeHandlerBegin(w, req)
  ELSE IF h = "health" THEN CheckHealth(w, enc)
  ELSE IF h \in InvHandlers THEN InvHandlerBegin(w, req)
  ELSE Error(w, "404 page not found", 404)

\* The handler of route h from the return of its backend call.
HandlerEnd(h, w, req, reply, enc, t) ==
  IF h = "login" THEN LoginHandlerEnd(w, req, reply, enc, t)
  ELSE IF h = "refresh" THEN RefreshHandlerEnd(w, req, reply, enc, t)
  ELSE IF h = "register" THEN RegisterHandlerEnd(w, req, reply, enc, t)
  ELSE IF h = "revoke" THEN RevokeHandlerEnd(w, reply, enc)
  ELSE IF h = "create" THEN CreateHandlerEnd(w, reply, enc)
  ELSE IF h = "get" THEN GetHandlerEnd(w, reply, enc)
  ELSE IF h = "update" THEN UpdateHandlerEnd(w, reply, enc)
  ELSE IF h = "delete" THEN DeleteHandlerEnd(w, reply, enc)
  ELSE IF h = "list" THEN ListHandlerEnd(w, reply, enc)
  ELSE w

\* Faulty variant: a failed backend call is tried once more.
AfterCall_RetryOnce(calls, reply) ==
  IF reply.failed /\ calls < 2 THEN [pc |-> "calling", calls |-> calls + 1]
  ELSE [pc |-> "done", calls |-> calls]

\* Where a handler stands when its backend call has returned: it answers
\* and returns, whatever the call returned, having called once.
AfterCall(calls, reply) == [pc |-> "done", calls |-> calls]

\* A handler starts on a request: it answers at once (a body it cannot
\* decode, or the health route, whose write ends as enc) or calls its
\* backend, through the client the handlers were built with, and waits.
IssueBegin(c, h, req, enc, client) ==
  /\ issue[c].pc = "idle"
  /\ LET rt == Route(h, req, now, arch)
         w == IF rt.nextCalls = 0 THEN Error(NewResponse, rt.body, rt.status)
              ELSE HandlerBegin(h, NewResponse, req, enc)
     IN issue' = [issue EXCEPT ![c] =
          [pc |-> IF w.status = 0 THEN "calling" ELSE "done",
           handler |-> h, req |-> req, w |-> w,
           calls |-> IF w.status = 0 THEN 1 ELSE 0,
           reply |-> [failed |-> FALSE, errText |-> "", resp |-> EmptyTokenResponse],
           enc |-> IF h = "health" /\ rt.nextCalls # 0 THEN enc ELSE "none",
           at |-> now, began |-> now,
           md |-> rt.md, cc |-> CallContext(h), ctx |-> "live", client |-> client]]
  /\ UNCHANGED <<now, arch, gate, proc, log>>

\* The backend call returns and the handler writes its response; enc is how
\* the encoding of the body ends if the handler gets to it.
IssueEnd(c, reply, enc) ==
  /\ issue[c].pc = "calling"
  /\ reply \in CallReturns(issue[c].handler, issue[c].cc, issue[c].ctx, issue[c].client)
  /\ LET s == issue[c]
     IN issue' = [issue EXCEPT ![c] =
          [s EXCEPT !.pc = AfterCall(s.calls, reply).pc,
                    !.calls = AfterCall(s.calls, reply).calls,
                    !.reply = reply, !.at = now,
                    !.enc = IF reply.failed THEN "none" ELSE enc,
                    !.w = HandlerEnd(s.handler, s.w, s.req, reply, enc, now)]]
  /\ UNCHANGED <<now, arch, gate, proc, log>>

\* The client goes away while the handler waits for its backend: the
\* request's context is cancelled, before the backend's reply has reached
\* the client or after (arrived).
Cancel(c, arrived) ==
  /\ issue[c].pc = "calling"
  /\ issue[c].ctx = "live"
  /\ issue' = [issue EXCEPT ![c].ctx = IF arrived THEN "raced" ELSE "canceled"]
  /\ UNCHANGED <<now, arch, gate, proc, log>>

\* The connection is ready for its next request.
IssueFinish(c) ==
  /\ issue[c].pc = "done"
  /\ issue' = [issue EXCEPT ![c] = Idle]
  /\ UNCHANGED <<now, arch, gate, proc, log>>

\* The gated route.
Next ==
  \/ Tick
  \/ \E c \in Conns, r \in Requests : Serve(c, r)
  \/ \E c \in Conns : Finish(c)

Spec == Init /\ [][Next]_vars

\* The routes main registers, on the gRPC client main builds.  Only a login
\* body has a username and a password, and only the inventory routes are
\* sent a credential; the other requests come without.
IssueNext ==
  \/ Tick
  \/ \E c \in AuthConns, h \in Handlers, req \in IssueRequests, enc \in Encodings :
       /\ h # "login" => req.username = "" /\ req.password = ""
       /\ h \notin InvHandlers => req.auth = HeaderOnly(<< >>)
       /\ IssueBegin(c, h, req, enc, "grpc")
  \/ \E c \in AuthConns, reply \in Replies \cup {CanceledReply}, enc \in Encodings :
       IssueEnd(c, reply, enc)
  \/ \E c \in AuthConns, arrived \in BOOLEAN : Cancel(c, arrived)
  \/ \E c \in AuthConns : IssueFinish(c)

IssueSpec == Init /\ [][IssueNext]_vars


\* ------------------------------------------------------------------------
\* Requests cancelled while their backend call is in flight, on the client
\* main builds and on the mock clients of the tests.
\* ------------------------------------------------------------------------

CancelNext ==
  \/ Tick
  \/ \E c \in AuthConns, h \in Handlers, client \in {"grpc", "mock"} :
       IssueBegin(c, h,
                  [bodyOk |-> TRUE, username |-> IF h = "login" THEN "alice" ELSE "",
                   password |-> IF h = "login" THEN "secret" ELSE "",
                   tls |-> FALSE, auth |-> HeaderOnly(<< >>)], "ok", client)
  \/ \E c \in AuthConns, reply \in Replies \cup {CanceledReply} :
       /\ ~reply.failed => /\ reply.resp.AccessExpiresIn \in {NilDuration, DurationOf(300, 0)}
                           /\ reply.resp.RefreshExpiresIn = NilDuration
       /\ IssueEnd(c, reply, "ok")
  \/ \E c \in AuthConns, arrived \in BOOLEAN : Cancel(c, arrived)
  \/ \E c \in AuthConns : IssueFinish(c)

CancelSpec == Init /\ [][CancelNext]_vars

\* ------------------------------------------------------------------------
\* main from ListenAndServe to the end of the process.
\* ------------------------------------------------------------------------

\* The listener accepts a connection: the server holds it as a new one, on
\* which no request has come yet.
Accept(r) ==
  /\ proc.pc \in {"serving", "signalled"}
  /\ proc.listening
  /\ r \notin proc.inflight \cup proc.fresh \cup proc.stale \cup proc.idle
  /\ proc' = [proc EXCEPT !.fresh = @ \cup {r}]
  /\ UNCHANGED <<now, arch, gate, issue, log>>

\* A new connection has been held for more than five seconds without a
\* request; when it was accepted the model does not record.
Age(r) ==
  /\ ~Terminated(proc)
  /\ r \in proc.fresh
  /\ proc' = [proc EXCEPT !.fresh = @ \ {r}, !.stale = @ \cup {r}]
  /\ UNCHANGED <<now, arch, gate, issue, log>>

\* A request arrives on a connection the server holds, new or kept alive:
\* the connection's goroutine reads it and runs the handler, whether the
\* listener is open or not.
Arrive(r) ==
  /\ ~Terminated(proc)
  /\ r \in proc.fresh \cup proc.stale \cup proc.idle
  /\ proc' = [proc EXCEPT !.fresh = @ \ {r}, !.stale = @ \ {r}, !.idle = @ \ {r},
                           !.inflight = @ \cup {r}]
  /\ UNCHANGED <<now, arch, gate, issue, log>>

\* A request in flight is answered.  Its connection is kept alive (keep)
\* unless the client or a server in Shutdown closes it.
Complete(r, keep) ==
  /\ ~Terminated(proc)
  /\ r \in proc.inflight
  /\ proc' = [proc EXCEPT !.inflight = @ \ {r},
                           !.idle = IF keep /\ proc.pc # "draining" THEN @ \cup {r} ELSE @]
  /\ UNCHANGED <<now, arch, gate, issue, log>>

\* The process receives SIGINT or SIGTERM: signal.Notify sends to the
\* channel of capacity one, and a signal that finds the buffer full is
\* dropped.
Signal(sig) ==
  /\ ~Terminated(proc)
  /\ proc' = [proc EXCEPT !.chan = IF @ < 1 THEN @ + 1 ELSE @, !.signalled = TRUE]
  /\ UNCHANGED <<now, arch, gate, issue, log>>

\* ListenAndServe returns an error and the goroutine sends it: a failure of
\* the server while main waits or goes to shut down, http.ErrServerClosed
\* once Shutdown is under way.  After main's select nothing receives it.
\* The connections the server holds go on being served.
ServerFails ==
  /\ proc.pc \in {"serving", "signalled", "draining"}
  /\ proc.svrError = 0
  /\ proc' = [proc EXCEPT !.svrError = 1, !.listening = FALSE]
  /\ UNCHANGED <<now, arch, gate, issue, log>>

\* main's select takes the server's error: it panics, and the process ends
\* with its connections.
MainSelectError ==
  /\ proc.pc = "serving"
  /\ proc.svrError = 1
  /\ proc' = [proc EXCEPT !.pc = "panicked", !.svrError = 0,
                           !.aborted = proc.inflight, !.inflight = {},
                           !.fresh = {}, !.stale = {}, !.idle = {}]
  /\ UNCHANGED <<now, arch, gate, issue, log>>

\* main's select takes the signal.
MainSelectSignal ==
  /\ proc.pc = "serving"
  /\ proc.chan = 1
  /\ proc' = [proc EXCEPT !.pc = "signalled", !.chan = 0]
  /\ UNCHANGED <<now, arch, gate, issue, log>>

\* main calls server.Shutdown with a context of GraceSeconds: the listener
\* is closed (lnerr: closing it failed) and Shutdown goes to its first poll.
BeginShutdown(lnerr) ==
  /\ proc.pc = "signalled"
  /\ proc' = [proc EXCEPT !.pc = "draining", !.listening = FALSE,
                           !.elapsed = 0, !.lnerr = lnerr, !.waiting = FALSE]
  /\ UNCHANGED <<now, arch, gate, issue, log>>

\* A second passes while Shutdown runs, before its deadline or after.  A
\* new connection counts as idle once unixSec < time.Now().Unix()-5, that
\* is once it has been held for more than five seconds; no connection is
\* accepted during Shutdown, so when the sixth second has passed every new
\* connection counts as idle.  (A connection accepted earlier gets there
\* sooner: Age.)
ClockTick ==
  /\ proc.pc = "draining"
  /\ proc.elapsed < MaxElapsed
  /\ proc' = [proc EXCEPT !.elapsed = @ + 1,
                           !.fresh = IF proc.elapsed + 1 > 5 THEN {} ELSE @,
                           !.stale = IF proc.elapsed + 1 > 5 THEN @ \cup proc.fresh ELSE @]
  /\ UNCHANGED <<now, arch, gate, issue, log>>

\* Shutdown polls (closeIdleConns) and finds no request in flight and no
\* connection newer than five seconds: it closes the connections that are
\* idle or new for long, and returns; main returns, or panics on the error
\* of closing the listener.
ShutdownReturns ==
  /\ proc.pc = "draining"
  /\ ~proc.waiting
  /\ proc.inflight = {}
  /\ proc.fresh = {}
  /\ proc' = [proc EXCEPT !.pc = IF proc.lnerr THEN "panicked" ELSE "exited",
                           !.stale = {}, !.idle = {}]
  /\ UNCHANGED <<now, arch, gate, issue, log>>

\* Shutdown polls and finds a request in flight or a connection newer than
\* five seconds: it closes the connections that are idle or new for long,
\* and waits in its select for its context or its poll timer.
ShutdownWaits ==
  /\ proc.pc = "draining"
  /\ ~proc.waiting
  /\ proc.inflight # {} \/ proc.fresh # {}
  /\ proc' = [proc EXCEPT !.waiting = TRUE, !.stale = {}, !.idle = {}]
  /\ UNCHANGED <<now, arch, gate, issue, log>>

\* The poll timer fires: Shutdown goes to poll again.
PollTimer ==
  /\ proc.pc = "draining"
  /\ proc.waiting
  /\ proc' = [proc EXCEPT !.waiting = FALSE]
  /\ UNCHANGED <<now, arch, gate, issue, log>>

\* Shutdown's select finds its context done: it returns the context's
\* error and main panics, whatever has been answered since the last poll.
ShutdownTimesOut ==
  /\ proc.pc = "draining"
  /\ proc.waiting
  /\ DeadlineExceeded(proc.elapsed)
  /\ proc' = [proc EXCEPT !.pc = "panicked", !.aborted = proc.inflight,
                           !.inflight = {}, !.fresh = {}, !.stale = {}, !.idle = {}]
  /\ UNCHANGED <<now, arch, gate, issue, log>>

ShutdownNext ==
  \/ \E r \in InFlightIds : Accept(r)
  \/ \E r \in InFlightIds : Age(r)
  \/ \E r \in InFlightIds : Arrive(r)
  \/ \E r \in InFlightIds, keep \in BOOLEAN : Complete(r, keep)
  \/ \E sig \in {"SIGINT", "SIGTERM"} : Signal(sig)
  \/ ServerFails
  \/ MainSelectError
  \/ MainSelectSignal
  \/ \E lnerr \in BOOLEAN : BeginShutdown(lnerr)
  \/ ClockTick
  \/ ShutdownReturns
  \/ ShutdownWaits
  \/ PollTimer
  \/ ShutdownTimesOut

\* main's own steps, Shutdown's polls and the passing of time happen;
\* requests in flight may never be answered and a signal may never come.  A
\* select whose context is done cannot take its timer for ever.
ShutdownSpec ==
  /\ Init
  /\ [][ShutdownNext]_vars
  /\ WF_vars(MainSelectError)
  /\ WF_vars(MainSelectSignal)
  /\ WF_vars(\E lnerr \in BOOLEAN : BeginShutdown(lnerr))
  /\ WF_vars(ClockTick)
  /\ WF_vars(ShutdownReturns)
  /\ WF_vars(ShutdownWaits)
  /\ WF_vars(PollTimer)
  /\ SF_vars(ShutdownTimesOut)

\* ------------------------------------------------------------------------
\* Calls into the logger package, one after another.
\* ------------------------------------------------------------------------

\* logger.Init(cfg)
LogInit(cfg, openable) ==
  /\ LET r == LoggerInit(log.pkg, cfg, openable)
     IN log' = [pkg |-> r.st, call |-> "Init", err |-> r.err, got |-> NilLogger,
                everInit |-> TRUE, was |-> log.pkg.initialized]
  /\ UNCHANGED <<now, arch, gate, issue, proc>>

\* logger.Sync()
LogSync(syncErr) ==
  /\ log' = [log EXCEPT !.call = "Sync", !.err = LoggerSync(log.pkg, syncErr),
                        !.got = NilLogger, !.was = log.pkg.initialized]
  /\ UNCHANGED <<now, arch, gate, issue, proc>>

\* logger.Logger()
LogLogger ==
  /\ LET st == EnsureInit(log.pkg)
     IN log' = [pkg |-> st, call |-> "Logger", err |-> FALSE, got |-> st.zapLogger,
                everInit |-> log.everInit \/ ~log.pkg.initialized,
                was |-> log.pkg.initialized]
  /\ UNCHANGED <<now, arch, gate, issue, proc>>

\* logger.Sugar()
LogSugar ==
  /\ LET st == EnsureInit(log.pkg)
     IN log' = [pkg |-> st, call |-> "Sugar", err |-> FALSE, got |-> st.sugar,
                everInit |-> log.everInit \/ ~log.pkg.initialized,
                was |-> log.pkg.initialized]
  /\ UNCHANGED <<now, arch, gate, issue, proc>>

LoggerNext ==
  \/ \E cfg \in LogConfigs, openable \in SUBSET {Lit.app, Lit.gw} : LogInit(cfg, openable)
  \/ \E syncErr \in BOOLEAN : LogSync(syncErr)
  \/ LogLogger
  \/ LogSugar

LoggerSpec == Init /\ [][LoggerNext]_vars

\* ------------------------------------------------------------------------
\* Properties of the expiry gate.  They are stated over the request a
\* connection carried, the time it was served at and the response it got,
\* from the request's text alone.
\* ------------------------------------------------------------------------

Done(c) == gate[c].pc = "done"

\* The bearer string a request presents: its Authorization header, else
\* "Bearer " followed by the value of its access_token cookie.
PresentedCredential(r) ==
  IF r.header # << >> THEN r.header
  ELSE IF r.hasCookie /\ r.cookie # << >> THEN prefix \o r.cookie
  ELSE << >>

\* The credential is longer than "Bearer " and starts with it, in any case.
HasBearerPrefix(a) ==
  Len(a) > Len(prefix) /\ EqualFold(SubSeq(a, 1, Len(prefix)), prefix)

\* The token of a credential: what follows the prefix, trimmed.
BearerToken(a) == TrimSpace(SubSeq(a, Len(prefix) + 1, Len(a)))

\* The second segment of a token decodes under one of the two alphabets.
PayloadDecodes(token) ==
  Len(Split(token)) >= 2 /\ ~DecodePayload(Split(token)[2]).err

\* The claims of a token whose payload decodes.
ClaimsOf(token) == Unmarshal(DecodePayload(Split(token)[2]).raw)

\* The payload is a JSON object with a numeric exp.
HasNumericExp(token) ==
  /\ PayloadDecodes(token)
  /\ LET u == ClaimsOf(token)
     IN ~u.err /\ HasKey(u.claims, ExpKey) /\ Lookup(u.claims, ExpKey).t = "num"

\* The payload is a JSON object that has no exp.
LacksExp(token) ==
  /\ PayloadDecodes(token)
  /\ LET u == ClaimsOf(token)
     IN ~u.err /\ u.claims # << >> /\ ~HasKey(u.claims, ExpKey)

ExpOf(token) == Lookup(ClaimsOf(token).claims, ExpKey)

\* What the text of a credential says about it.
CredentialFacts(cred, token) ==
  [cred |-> cred,
   prefixed |-> HasBearerPrefix(cred),
   token |-> token,
   segments |-> Len(Split(token)),
   payload |-> IF Len(Split(token)) >= 2 THEN Split(token)[2] ELSE << >>,
   decodes |-> PayloadDecodes(token),
   lacksExp |-> LacksExp(token),
   numeric |-> HasNumericExp(token),
   exp |-> IF HasNumericExp(token) THEN ExpOf(token)
           ELSE [t |-> "none", bad |-> TRUE, neg |-> FALSE, mant |-> 0, e10 |-> 0]]

Facts(r) ==
  CredentialFacts(PresentedCredential(r), BearerToken(PresentedCredential(r)))

\* The facts of every request of the model.
RequestFacts == [r \in Requests |-> Facts(r)]

\* The facts of the request a connection carried.
FactsOf(c) == RequestFacts[gate[c].req]

\* exp > t as numbers, for exp = mant * 10^e10 of either sign and 0 <= t.
ExpGreater(n, t) ==
  IF n.mant = 0 \/ n.neg THEN FALSE
  ELSE IF n.e10 >= 0 THEN NumDigits(n.mant) + n.e10 > 9 \/ n.mant * Pow10(n.e10) > t
  ELSE IF 0 - n.e10 >= 10 THEN t = 0
  ELSE IF 0 - n.e10 = 9 /\ t >= 3 THEN FALSE
  ELSE n.mant > t * Pow10(0 - n.e10)

\* The request was let through: the protected handler answered.
Admitted(c) == gate[c].res.nextCalls = 1 /\ gate[c].res.status = 200

RejectedWith(c, msg) ==
  /\ gate[c].res.nextCalls = 0
  /\ gate[c].res.status = 401
  /\ gate[c].res.body = msg

\* The expiry the gate sees has passed at the time the request was served:
\* the exp converted as the build converts it is at most that time.
Lapsed(c) == NowAtOrAfter(gate[c].at, Float64ToInt64(FactsOf(c).exp, arch))

\* The request a connection carried should be let through: it presents a
\* prefixed credential with a non-blank token and a numeric exp that has
\* not lapsed.
Admissible(c) ==
  /\ FactsOf(c).prefixed
  /\ FactsOf(c).token # << >>
  /\ FactsOf(c).numeric
  /\ ~Lapsed(c)

\* C1: a prefixed credential whose payload has a numeric exp is admitted
\* when exp is greater than the current time and rejected as "access token
\* expired" when exp is at most the current time.  The gate does not do
\* this for an exp that is not a whole number of seconds within int64.
C1_AdmitIffExpInFuture ==
  \A c \in Conns :
    Done(c) /\ FactsOf(c).prefixed /\ FactsOf(c).numeric
    => IF ExpGreater(FactsOf(c).exp, gate[c].at)
       THEN Admitted(c)
       ELSE RejectedWith(c, "access token expired")

\* C2: the next handler is called exactly once when the request is
\* admissible and never otherwise, and every rejection has written a
\* response.
C2_NextOnceOnAdmitOnly ==
  \A c \in Conns :
    Done(c) =>
      IF Admissible(c)
      THEN gate[c].res.nextCalls = 1
      ELSE gate[c].res.nextCalls = 0 /\ gate[c].res.written

\* An expired token was served: rejected with a response and no call of next.
C2_Witness ==
  \E c \in Conns :
    /\ Done(c)
    /\ gate[c].req = HeaderOnly(prefix \o Token1)
    /\ gate[c].at = 1
    /\ gate[c].res.nextCalls = 0
    /\ gate[c].res.written

\* C3: every request that is not admissible is answered 401, and the gate
\* answers no request with a 5xx status.
C3_EveryFailureIs401 ==
  \A c \in Conns :
    Done(c) =>
      /\ gate[c].res.status < 500
      /\ ~Admissible(c) => gate[c].res.status = 401

\* A token whose payload is not base64 was served and answered 401.
C3_Witness ==
  \E c \in Conns :
    /\ Done(c)
    /\ FactsOf(c).prefixed
    /\ FactsOf(c).segments >= 2
    /\ ~FactsOf(c).decodes
    /\ gate[c].res.status = 401

\* The text of a rejection if there were three of them.
ThreeTexts(c) ==
  IF FactsOf(c).cred = << >> THEN "missing access token"
  ELSE IF FactsOf(c).prefixed /\ FactsOf(c).numeric /\ Lapsed(c)
    THEN "access token expired"
  ELSE "invalid access token"

\* The text of a rejection with the fourth one: a prefixed credential whose
\* token is blank.
FourTexts(c) ==
  IF FactsOf(c).prefixed /\ FactsOf(c).token = << >>
    THEN "empty access token"
  ELSE ThreeTexts(c)

\* C4: every 401 of the gate carries one of four texts chosen by outcome:
\* "missing access token" without a credential, "empty access token" for a
\* prefixed credential with a blank token, "access token expired" for an
\* expired one and "invalid access token" for every other rejection.
C4_RejectionTexts ==
  \A c \in Conns :
    Done(c) /\ gate[c].res.status = 401 => gate[c].res.body = FourTexts(c)

\* A prefixed credential with a blank token was answered "empty access token".
C4_Witness ==
  \E c \in Conns :
    /\ Done(c)
    /\ FactsOf(c).prefixed
    /\ FactsOf(c).token = << >>
    /\ gate[c].res.status = 401
    /\ gate[c].res.body = "empty access token"

\* C4 as stated: every 401 carries one of three texts.
C4_AsStated ==
  \A c \in Conns :
    Done(c) /\ gate[c].res.status = 401 => gate[c].res.body = ThreeTexts(c)

\* C5: a credential without the "Bearer " prefix, or no longer than it, is
\* rejected with 401 "invalid access token" and never admitted.
C5_PrefixRequired ==
  \A c \in Conns :
    Done(c) /\ FactsOf(c).cred # << >> /\ ~FactsOf(c).prefixed
    => RejectedWith(c, "invalid access token")

\* A header holding a live token under another scheme was rejected.
C5_Witness ==
  \E c \in Conns :
    /\ Done(c)
    /\ gate[c].req.header = <<"B", "a", "s", "i", "c", " ">> \o Token2
    /\ gate[c].at < 2
    /\ RejectedWith(c, "invalid access token")

\* C6: a request with token T only in the access_token cookie is admitted
\* exactly when a request served at the same time with "Bearer T" only in
\* the Authorization header is.
C6_SourceIndependence ==
  \A c, d \in Conns :
    (/\ Done(c) /\ Done(d)
     /\ gate[c].at = gate[d].at
     /\ gate[c].req.header = << >> /\ gate[c].req.hasCookie
     /\ gate[d].req = HeaderOnly(prefix \o gate[c].req.cookie))
    => (Admitted(c) <=> Admitted(d))

\* A live token was admitted from the cookie and from the header at once.
C6_Witness ==
  /\ Done("c1") /\ Done("c2")
  /\ gate["c1"].at = gate["c2"].at
  /\ gate["c1"].req = CookieOnly(Token2)
  /\ gate["c2"].req = HeaderOnly(prefix \o Token2)
  /\ Admitted("c1") /\ Admitted("c2")

\* C7: a prefixed credential with a non-blank token whose payload has no
\* numeric exp (too few segments, no base64, no JSON object, no exp, an exp
\* that is not a number) is rejected with 401 "invalid access token".
C7_NoAdmitWithoutExpiry ==
  \A c \in Conns :
    (/\ Done(c)
     /\ FactsOf(c).prefixed
     /\ FactsOf(c).token # << >>
     /\ ~FactsOf(c).numeric)
    => RejectedWith(c, "invalid access token")

\* A token whose payload is a JSON object without exp was rejected.
C7_Witness ==
  \E c \in Conns :
    /\ Done(c)
    /\ FactsOf(c).prefixed
    /\ FactsOf(c).lacksExp
    /\ RejectedWith(c, "invalid access token")

\* C8: when next is called its context carries exactly one metadata entry,
\* authorization, whose value is the presented bearer string unchanged;
\* when next is not called no metadata exists.
C8_VerbatimMetadata ==
  \A c \in Conns :
    Done(c) =>
      IF gate[c].res.nextCalls > 0
      THEN gate[c].res.md = << [k |-> "authorization", v |-> FactsOf(c).cred] >>
      ELSE gate[c].res.md = << >>

\* A header with a lower-case scheme was admitted and forwarded as it came.
C8_Witness ==
  \E c \in Conns :
    /\ Done(c)
    /\ gate[c].req.header = <<"b", "e", "a", "r", "e", "r", " ">> \o Token2
    /\ Admitted(c)
    /\ gate[c].res.md[1].v = gate[c].req.header

\* C9: two prefixed credentials whose tokens have at least two segments and
\* the same second segment get the same response at the same time.
C9_PayloadOnly ==
  \A c, d \in Conns :
    (/\ Done(c) /\ Done(d)
     /\ gate[c].at = gate[d].at
     /\ FactsOf(c).prefixed /\ FactsOf(d).prefixed
     /\ FactsOf(c).segments >= 2 /\ FactsOf(d).segments >= 2
     /\ FactsOf(c).payload = FactsOf(d).payload)
    => /\ gate[c].res.status = gate[d].res.status
       /\ gate[c].res.body = gate[d].res.body
       /\ gate[c].res.nextCalls = gate[d].res.nextCalls

\* A token of two segments and one of three with the same payload were
\* both admitted.
C9_Witness ==
  /\ Done("c1") /\ Done("c2")
  /\ gate["c1"].at = gate["c2"].at
  /\ gate["c1"].req = HeaderOnly(prefix \o Token2)
  /\ FactsOf("c2").prefixed
  /\ FactsOf("c2").segments = 2
  /\ FactsOf("c2").payload = FactsOf("c1").payload
  /\ Admitted("c1") /\ Admitted("c2")

\* ------------------------------------------------------------------------
\* Properties of the token issuance responder.
\* ------------------------------------------------------------------------

\* Login or refresh got a token pair from the backend and has answered.
Issued(c) ==
  /\ issue[c].pc = "done"
  /\ issue[c].handler \in {"login", "refresh"}
  /\ issue[c].calls = 1
  /\ ~issue[c].reply.failed

CookieNames(w) == {w.cookies[k].name : k \in 1..Len(w.cookies)}

\* C10: after a successful backend call the response has one cookie per
\* non-empty token of the pair: access_token for the access token,
\* refresh_token for the refresh token, and no other.
C10_CookiePerToken ==
  \A c \in AuthConns :
    Issued(c) =>
      /\ Len(issue[c].w.cookies)
           = (IF issue[c].reply.resp.AccessToken # << >> THEN 1 ELSE 0)
             + (IF issue[c].reply.resp.RefreshToken # << >> THEN 1 ELSE 0)
      /\ CookieNames(issue[c].w)
           = (IF issue[c].reply.resp.AccessToken # << >> THEN {"access_token"} ELSE {})
             \cup (IF issue[c].reply.resp.RefreshToken # << >> THEN {"refresh_token"} ELSE {})

\* A pair with an access token only was issued with exactly one cookie.
C10_Witness ==
  \E c \in AuthConns :
    /\ Issued(c)
    /\ issue[c].reply.resp.AccessToken # << >>
    /\ issue[c].reply.resp.RefreshToken = << >>
    /\ Len(issue[c].w.cookies) = 1
    /\ issue[c].w.cookies[1].name = "access_token"


\* A handler has answered after its backend call returned.
Answered(c) == issue[c].pc = "done" /\ issue[c].calls = 1

\* The instant t + d for a backend lifetime d of seconds and nanos, as whole
\* seconds and a remainder of 0 to 999999999 nanoseconds.
InstantAfter(t, d) ==
  [set |-> TRUE,
   sec |-> t + d.seconds + (d.nanos \div 1000000000),
   nanos |-> d.nanos % 1000000000]

\* C11: an access_token cookie expires at now + the backend access
\* lifetime, or at now + 5 minutes when the backend gave none, and always
\* carries the expiry; a refresh_token cookie expires at now + the backend
\* refresh lifetime, or carries no expiry when the backend gave none.
C11_CookieExpiry ==
  \A c \in AuthConns :
    Issued(c) =>
      \A k \in 1..Len(issue[c].w.cookies) :
        LET ck == issue[c].w.cookies[k]
            resp == issue[c].reply.resp
        IN /\ ck.name = "access_token" =>
                /\ ck.expires = IF resp.AccessExpiresIn.nil
                                THEN [set |-> TRUE, sec |-> issue[c].at + 5 * 60, nanos |-> 0]
                                ELSE InstantAfter(issue[c].at, resp.AccessExpiresIn)
                /\ ck.expiresAttr = <<ck.expires.sec>>
           /\ ck.name = "refresh_token" =>
                IF resp.RefreshExpiresIn.nil
                THEN ~ck.expires.set /\ ck.expiresAttr = << >>
                ELSE /\ ck.expires = InstantAfter(issue[c].at, resp.RefreshExpiresIn)
                     /\ ck.expiresAttr = <<ck.expires.sec>>

\* A pair without lifetimes was issued: the access cookie expires five
\* minutes on, the refresh cookie has no expiry.
C11_Witness ==
  \E c \in AuthConns :
    /\ Issued(c)
    /\ issue[c].reply.resp.AccessExpiresIn.nil
    /\ issue[c].reply.resp.RefreshExpiresIn.nil
    /\ Len(issue[c].w.cookies) = 2
    /\ ~issue[c].w.cookies[1].expires.set
    /\ issue[c].w.cookies[2].expires.sec = issue[c].at + 300

\* C12: every cookie of a response has Path "/", HttpOnly and SameSite=Lax,
\* and is Secure exactly when the request came over TLS.
C12_CookieAttributes ==
  \A c \in AuthConns :
    issue[c].pc = "done" =>
      \A k \in 1..Len(issue[c].w.cookies) :
        /\ issue[c].w.cookies[k].name \in {"access_token", "refresh_token"}
        /\ issue[c].w.cookies[k].path = "/"
        /\ issue[c].w.cookies[k].httpOnly
        /\ issue[c].w.cookies[k].sameSite = "Lax"
        /\ issue[c].w.cookies[k].secure = issue[c].req.tls

\* A request without TLS got two cookies, neither of them Secure.
C12_Witness ==
  \E c \in AuthConns :
    /\ Issued(c)
    /\ ~issue[c].req.tls
    /\ Len(issue[c].w.cookies) = 2
    /\ ~issue[c].w.cookies[1].secure
    /\ ~issue[c].w.cookies[2].secure

\* C13: a login or refresh response has the header Authorization: Bearer
\* <access token> and exposes Authorization exactly when the backend
\* returned a non-empty access token; otherwise it has neither header.
C13_AuthorizationEcho ==
  \A c \in AuthConns :
    issue[c].pc = "done" /\ issue[c].handler \in {"login", "refresh"} =>
      IF Issued(c) /\ issue[c].reply.resp.AccessToken # << >>
      THEN /\ issue[c].w.authorization
                = <<"B", "e", "a", "r", "e", "r", " ">> \o issue[c].reply.resp.AccessToken
           /\ issue[c].w.expose = "Authorization"
      ELSE /\ issue[c].w.authorization = << >>
           /\ issue[c].w.expose = ""

\* A refresh returned an access token and the response echoes it.
C13_Witness ==
  \E c \in AuthConns :
    /\ Issued(c)
    /\ issue[c].handler = "refresh"
    /\ issue[c].reply.resp.AccessToken = Token2
    /\ issue[c].w.authorization = prefix \o Token2
    /\ issue[c].w.expose = "Authorization"

\* Login or refresh has written its JSON body.
BodyWritten(c) == Issued(c) /\ issue[c].enc = "ok"

\* C14: the body of a successful login or refresh has user_id, has
\* access_token exactly when the backend returned a non-empty access token
\* and has access_expires_in_seconds exactly when the backend returned an
\* access lifetime, each independently of the other.
C14_BodyKeys ==
  \A c \in AuthConns :
    BodyWritten(c) =>
      /\ issue[c].w.status = 200
      /\ issue[c].w.user_id = issue[c].reply.resp.UserId
      /\ issue[c].w.keys
           = {"user_id"}
             \cup (IF issue[c].reply.resp.AccessToken # << >>
                   THEN {"access_token"} ELSE {})
             \cup (IF ~issue[c].reply.resp.AccessExpiresIn.nil
                   THEN {"access_expires_in_seconds"} ELSE {})

\* A body has access_expires_in_seconds and no access_token.
C14_Witness ==
  \E c \in AuthConns :
    /\ BodyWritten(c)
    /\ issue[c].w.keys = {"user_id", "access_expires_in_seconds"}

\* C14 as stated: the body has user_id, and access_expires_in_seconds never
\* without access_token.
C14_AsStated ==
  \A c \in AuthConns :
    BodyWritten(c) =>
      /\ "user_id" \in issue[c].w.keys
      /\ "access_expires_in_seconds" \in issue[c].w.keys
           => "access_token" \in issue[c].w.keys

\* C15: access_expires_in_seconds is the floor of the backend access
\* lifetime in seconds.  The handlers truncate toward zero instead, after a
\* conversion to float64 that rounds.
C15_FloorOfLifetime ==
  \A c \in AuthConns :
    BodyWritten(c) /\ "access_expires_in_seconds" \in issue[c].w.keys =>
      issue[c].w.access_expires_in_seconds
        = issue[c].reply.resp.AccessExpiresIn.seconds
          + (issue[c].reply.resp.AccessExpiresIn.nanos \div 1000000000)

\* C16: login answers 400 without calling the backend when the body does
\* not decode or username or password is empty, and calls the backend only
\* for a request with both.
C16_LoginValidation ==
  \A c \in AuthConns :
    issue[c].pc # "idle" /\ issue[c].handler = "login" =>
      IF ~issue[c].req.bodyOk \/ issue[c].req.username = "" \/ issue[c].req.password = ""
      THEN /\ issue[c].calls = 0
           /\ issue[c].pc = "done"
           /\ issue[c].w.status = 400
      ELSE issue[c].calls = 1

\* A login with a username and no password was answered 400 without a call.
C16_Witness ==
  \E c \in AuthConns :
    /\ issue[c].pc = "done"
    /\ issue[c].handler = "login"
    /\ issue[c].req.bodyOk
    /\ issue[c].req.username = "alice"
    /\ issue[c].req.password = ""
    /\ issue[c].calls = 0
    /\ issue[c].w.status = 400

\* C17: a failed backend call is answered 500 with a text that is not the
\* error text of the backend.  Login answers with that very text.
C17_NoBackendTextInBody ==
  \A c \in AuthConns :
    Answered(c) /\ issue[c].reply.failed =>
      /\ issue[c].w.status = 500
      /\ issue[c].w.text \notin BackendErrorTexts

\* C18: a failed Login call is answered 500 with the error text of the
\* backend as body.
C18_LoginFailureText ==
  \A c \in AuthConns :
    Answered(c) /\ issue[c].handler = "login" /\ issue[c].reply.failed =>
      /\ issue[c].w.status = 500
      /\ issue[c].w.text = issue[c].reply.errText

\* A Login that failed with "invalid credentials" was answered with it.
C18_Witness ==
  \E c \in AuthConns :
    /\ Answered(c)
    /\ issue[c].handler = "login"
    /\ issue[c].reply.failed
    /\ issue[c].reply.errText = "invalid credentials"
    /\ issue[c].w.status = 500
    /\ issue[c].w.text = "invalid credentials"

\* C19: when the encoding of the body fails after a successful backend
\* call, the response is a 500 with the text of an encoding failure.  It is
\* not when the failed write had already committed status 200.
C19_EncodeFailureIs500 ==
  \A c \in AuthConns :
    Answered(c) /\ ~issue[c].reply.failed /\ issue[c].enc # "ok" =>
      /\ issue[c].w.status = 500
      /\ issue[c].w.text \in {"Failed to encode response", "failed to encode result"}

\* C20: a handler calls its backend at most once for a request, and when
\* the call returns, failed or not, the handler answers without a further
\* call; a failed call is answered with an error.  (The cancellation of the
\* request's context while the call is in flight is not the call's return.)
C20_NoRetry ==
  /\ [](\A c \in AuthConns : issue[c].pc # "idle" => issue[c].calls <= 1)
  /\ [][\A c \in AuthConns :
          issue[c].pc = "calling" /\ [issue'[c] EXCEPT !.ctx = "live"]
                                       # [issue[c] EXCEPT !.ctx = "live"] =>
            /\ issue'[c].pc = "done"
            /\ issue'[c].calls = 1
            /\ issue'[c].reply.failed => issue'[c].w.status = 500]_vars

\* A list handler has answered a failed call with 500 after one call.
C20_Witness ==
  \E c \in AuthConns :
    /\ Answered(c)
    /\ issue[c].handler = "list"
    /\ issue[c].reply.failed
    /\ issue[c].w.status = 500
    /\ issue[c].w.text = "failed to list products"

\* ------------------------------------------------------------------------
\* Properties of the request context, the process, the inventory and
\* register handlers, the router and the logger.
\* ------------------------------------------------------------------------

\* C21: every backend call, RevokeHandler's included, is made with the
\* request's own context, so a request cancelled while its call is in
\* flight cancels the call: on the client main builds the call returns the
\* cancellation and nothing of the backend, and the handler answers 500;
\* only a reply that had reached the client before the cancellation is
\* still handed on.  A call returns the cancellation only when the request
\* was cancelled.
C21_CallUsesRequestContext ==
  \A c \in AuthConns :
    issue[c].pc # "idle" /\ issue[c].calls >= 1 =>
      /\ issue[c].cc = "request"
      /\ Answered(c) /\ issue[c].client = "grpc" /\ issue[c].ctx = "canceled" =>
           /\ issue[c].reply = CanceledReply
           /\ issue[c].w.status = 500
           /\ issue[c].w.cookies = << >>
      /\ Answered(c) /\ issue[c].reply = CanceledReply =>
           /\ issue[c].ctx # "live"
           /\ issue[c].client = "grpc"

\* A login on the client main builds was cancelled while its call was in
\* flight: the call returned the cancellation and the handler answered
\* 500.
C21_Witness ==
  \E c \in AuthConns :
    /\ Answered(c)
    /\ issue[c].handler = "login"
    /\ issue[c].client = "grpc"
    /\ issue[c].ctx = "canceled"
    /\ issue[c].reply = CanceledReply
    /\ issue[c].w.status = 500

\* C22 as stated: once Shutdown has been called the server takes no new
\* request in.
C22_AsStated ==
  [][proc.pc = "draining" => proc'.inflight \subseteq proc.inflight]_vars

\* C22: once Shutdown has been called the listener is closed and no
\* connection is accepted, so a request is taken in only on a connection the
\* server held before; requests in flight are cut off only when the
\* GraceSeconds of Shutdown's context have run out, and then by panic; main
\* returns only with nothing in flight; once the GraceSeconds have run out
\* the process ends, whatever is in flight; and after every shutdown signal
\* the process ends.
C22_Shutdown ==
  /\ [](proc.pc = "draining" => ~proc.listening)
  /\ [][proc.pc \in {"draining", "exited", "panicked"} =>
          proc'.inflight \cup proc'.fresh \cup proc'.stale \cup proc'.idle
            \subseteq proc.inflight \cup proc.fresh \cup proc.stale \cup proc.idle]_vars
  /\ [][proc.pc = "draining" /\ proc'.pc = "panicked" /\ proc.inflight # {} =>
          proc.elapsed >= GraceSeconds /\ proc'.aborted = proc.inflight]_vars
  /\ [][proc.pc = "draining" /\ proc'.pc = "exited" => proc.inflight = {}]_vars
  /\ (proc.pc = "draining" /\ proc.elapsed >= GraceSeconds ~> Terminated(proc))
  /\ (proc.signalled ~> Terminated(proc))

\* The grace period ran out after a signal with requests in flight and main
\* panicked.
C22_Witness ==
  /\ proc.signalled
  /\ proc.pc = "panicked"
  /\ proc.elapsed >= GraceSeconds
  /\ proc.aborted # {}

\* The text an inventory handler answers a failed call with.
InvFailText(h) ==
  IF h = "create" THEN "failed to create product"
  ELSE IF h = "get" THEN "failed to get product"
  ELSE IF h = "update" THEN "failed to update product"
  ELSE IF h = "delete" THEN "failed to delete product"
  ELSE "failed to list products"

\* C24: an inventory handler answers a body that does not decode with 400
\* "failed to decode request body" and no backend call, a failed call with
\* 500 and the text of its operation, and 200 with Content-Type
\* application/json only after a call that succeeded.
C24_InventoryErrors ==
  \A c \in AuthConns :
    issue[c].pc # "idle" /\ issue[c].handler \in InvHandlers =>
      /\ ~issue[c].req.bodyOk =>
           /\ issue[c].pc = "done"
           /\ issue[c].calls = 0
           /\ issue[c].w.status = 400
           /\ issue[c].w.text = "failed to decode request body"
      /\ Answered(c) /\ issue[c].reply.failed =>
           /\ issue[c].w.status = 500
           /\ issue[c].w.text = InvFailText(issue[c].handler)
      /\ issue[c].pc = "done" /\ issue[c].w.status = 200 =>
           /\ issue[c].calls = 1
           /\ ~issue[c].reply.failed
           /\ issue[c].w.contentType = "application/json"

\* A delete was answered 500 with its own text after a failed call.
C24_Witness ==
  \E c \in AuthConns :
    /\ Answered(c)
    /\ issue[c].handler = "delete"
    /\ issue[c].reply.failed
    /\ issue[c].w.status = 500
    /\ issue[c].w.text = "failed to delete product"

\* C25: a register whose call succeeded sets no cookie and no Authorization
\* header, and when its body is written answers 200 with user_id as the
\* only key; a register whose call failed answers 500 "Failed to register
\* user".
C25_Register ==
  \A c \in AuthConns :
    Answered(c) /\ issue[c].handler = "register" =>
      IF issue[c].reply.failed
      THEN /\ issue[c].w.status = 500
           /\ issue[c].w.text = "Failed to register user"
      ELSE /\ issue[c].w.cookies = << >>
           /\ issue[c].w.authorization = << >>
           /\ issue[c].enc = "ok" =>
                /\ issue[c].w.status = 200
                /\ issue[c].w.keys = {"user_id"}
                /\ issue[c].w.user_id = issue[c].reply.resp.UserId

\* A register succeeded: 200, the user id, no cookie, no header.
C25_Witness ==
  \E c \in AuthConns :
    /\ Answered(c)
    /\ issue[c].handler = "register"
    /\ ~issue[c].reply.failed
    /\ issue[c].enc = "ok"
    /\ issue[c].w.status = 200
    /\ issue[c].w.user_id = "u1"
    /\ issue[c].w.cookies = << >>

\* The credential of request r should be let through at time t.
AuthAdmissible(r, t) ==
  /\ RequestFacts[r].prefixed
  /\ RequestFacts[r].token # << >>
  /\ RequestFacts[r].numeric
  /\ ~NowAtOrAfter(t, Float64ToInt64(RequestFacts[r].exp, arch))

\* C26: in the router of main every backend call of an inventory route
\* comes after the gate admitted the request, and carries the request's
\* credential as authorization metadata.  The router of main puts no gate
\* before these routes.
C26_InventoryBehindGate ==
  \A c \in AuthConns :
    issue[c].pc # "idle" /\ issue[c].handler \in InvHandlers /\ issue[c].calls >= 1 =>
      /\ AuthAdmissible(issue[c].req.auth, issue[c].began)
      /\ issue[c].md = Pairs(PresentedCredential(issue[c].req.auth))

\* The facts of the header of the request a connection carried, taken alone.
HeaderFacts(c) == RequestFacts[HeaderOnly(gate[c].req.header)]

\* The header alone should be let through.
HeaderAdmissible(c) ==
  /\ HeaderFacts(c).prefixed
  /\ HeaderFacts(c).token # << >>
  /\ HeaderFacts(c).numeric
  /\ ~NowAtOrAfter(gate[c].at, Float64ToInt64(HeaderFacts(c).exp, arch))

\* C27: a request with a non-empty Authorization header is judged on the
\* header alone, whatever its cookie holds, and what is propagated is the
\* header; the cookie's credential is propagated only for a request whose
\* header is empty.
C27_HeaderPrecedence ==
  \A c \in Conns :
    Done(c) =>
      /\ gate[c].req.header # << >> =>
           IF HeaderAdmissible(c)
           THEN Admitted(c) /\ gate[c].res.md = Pairs(gate[c].req.header)
           ELSE gate[c].res.nextCalls = 0 /\ gate[c].res.status = 401
      /\ /\ Admitted(c)
         /\ gate[c].req.hasCookie
         /\ gate[c].res.md = Pairs(prefix \o gate[c].req.cookie)
         => gate[c].req.header \in { << >>, prefix \o gate[c].req.cookie }

\* A request with a lapsed token in the header and a good token in the
\* cookie was rejected as expired.
C27_Witness ==
  \E c \in Conns :
    /\ Done(c)
    /\ gate[c].req.header = prefix \o Token1
    /\ gate[c].req.hasCookie
    /\ gate[c].req.cookie = Token2
    /\ gate[c].at = 1
    /\ RejectedWith(c, "access token expired")

\* Once rejected as expired a credential is rejected as expired at every
\* later time, and a credential admitted at a time is admitted at every
\* earlier one.
MonotoneInTime ==
  \A c, d \in Conns :
    Done(c) /\ Done(d) /\ gate[c].req = gate[d].req /\ gate[c].at <= gate[d].at =>
      /\ RejectedWith(c, "access token expired") => RejectedWith(d, "access token expired")
      /\ Admitted(d) => Admitted(c)

\* C28: expiry is monotone in time, and a credential with a numeric exp is
\* admitted at the times before exp and at no time from exp on.  The gate
\* stops admitting before exp when exp is not a whole number of seconds
\* within int64.
C28_MonotoneExpiry ==
  /\ MonotoneInTime
  /\ \A c \in Conns :
       Done(c) /\ FactsOf(c).prefixed /\ FactsOf(c).numeric =>
         (Admitted(c) <=> ExpGreater(FactsOf(c).exp, gate[c].at))

\* C29: a login, register or refresh response has a cookie or an
\* Authorization header only after a backend call that returned without
\* error; a 400 response and the 500 of a failed call have neither.
C29_CredentialsOnlyOnSuccess ==
  \A c \in AuthConns :
    issue[c].pc = "done" /\ issue[c].handler \in {"login", "register", "refresh"} =>
      /\ issue[c].w.cookies # << >> \/ issue[c].w.authorization # << >> =>
           issue[c].calls = 1 /\ ~issue[c].reply.failed
      /\ issue[c].w.status = 400 =>
           issue[c].w.cookies = << >> /\ issue[c].w.authorization = << >>
      /\ issue[c].w.status = 500 /\ issue[c].reply.failed =>
           issue[c].w.cookies = << >> /\ issue[c].w.authorization = << >>

\* A refresh whose call failed was answered 500 with no cookie and no
\* Authorization header.
C29_Witness ==
  \E c \in AuthConns :
    /\ Answered(c)
    /\ issue[c].handler = "refresh"
    /\ issue[c].reply.failed
    /\ issue[c].w.status = 500
    /\ issue[c].w.cookies = << >>
    /\ issue[c].w.authorization = << >>

\* C30: between calls initialized is true exactly when both package loggers
\* are non-nil; Logger() and Sugar() return a non-nil logger; an Init that
\* returned an error leaves the package uninitialized with no logger, the
\* previous one included; and Sync before any Init returns nil.
C30_LoggerSingleton ==
  /\ log.pkg.initialized <=> (~log.pkg.zapLogger.nil /\ ~log.pkg.sugar.nil)
  /\ log.pkg.zapLogger.nil <=> log.pkg.sugar.nil
  /\ log.call \in {"Logger", "Sugar"} => ~log.got.nil
  /\ log.call = "Init" /\ log.err =>
       ~log.pkg.initialized /\ log.pkg.zapLogger.nil /\ log.pkg.sugar.nil
  /\ log.call = "Init" /\ ~log.err => log.pkg.initialized
  /\ log.call = "Sync" /\ ~log.everInit => ~log.err

\* An Init failed on a package that had a logger and was initialized: the
\* package has none now.
C30_Witness ==
  /\ log.call = "Init"
  /\ log.err
  /\ log.was
  /\ log.pkg.zapLogger.nil
  /\ ~log.pkg.initialized

====
